---- MODULE Spec2Model ----
(***************************************************************************)
(* Signal classification and relationship graph engine of the crypto       *)
(* sector rotation repository.                                             *)
(*                                                                         *)
(* Numbers: every float of the program is an exact integer here.  Scores,  *)
(* cohesion (fiedler) values, momentum and bull ratio are counted in       *)
(* hundredths (0.20 is 20, 7.5 is 750).                                    *)
(***************************************************************************)
EXTENDS Integers, Sequences, FiniteSets, TLC

VARIABLES
    rankings_df,      \* tier: rows of the combined score ranking frame
    tier_column,      \* tier: TRUE iff the frame has a 'tier' column
    theme_tickers_df, \* tier: rows of the theme/ticker master frame
    tier_call,        \* tier: last direct call of calculate_tier
    actionable,       \* tier: frame returned by generate_actionable_tickers
    analysis,         \* tier: result of generate_consolidated_analysis
    signals,          \* stage: the arguments of get_stage_from_signals
    stage_out,        \* stage: its return value
    rankings,         \* comparator: snapshots keyed by date (YYYYMMDD)
    lookback_days,    \* comparator: the lookback_days argument
    changes,          \* comparator: result of calculate_cohesion_changes
    pct_change,       \* comparator: the argument of classify_change
    change_status,    \* comparator: its return value
    df,               \* graph: rows of load_theme_tickers()
    consolidated,     \* graph: the themes dict of load_consolidated(), in dict order
    actionable_df,    \* graph: rows of load_actionable_tickers()
    response,         \* graph: what get_graph_data returned
    rebuilt,          \* graph: what the same request returned when made again
    match_call,       \* search: a call of fuzzy_match(query, text) and its result
    search_call,      \* search: the parameters q and limit of search_all
    search_result,    \* search: what search_all returned
    HAS_PRICE_DATA,   \* band: PRICE_DIR.exists()
    price_files,      \* band: the csv files of PRICE_DIR, by file stem
    bb_candidates,    \* band: the 'tickers' list of bb_crossover_candidates.json
    price_cache_file, \* band: the 'prices' dict of price_cache.json
    master_file,      \* band: ticker -> category rows of theme_ticker_master.csv
    category_cache,   \* band: the global _category_cache
    price_cache,      \* band: the global _price_cache
    price_info,       \* band: what get_ticker_price_info returned
    crossovers,       \* band: what compute_bb_crossovers returned
    caller,           \* cache: where each thread calling get_category_mapping stands
    tickers_file,     \* batch: the latest actionable_tickers_*.csv, if there is one
    green_tickers,    \* batch: the tickers get_green_tickers_for_date extracts
    tstop_tickers,    \* batch: the tickers of the latest tstop_filtered date
    candidates_out,   \* batch: what get_breakout_candidates returned
    distribution,     \* batch: what get_stage_distribution returned
    unreadable,       \* memo: the source files whose read raises
    memo              \* memo: the calls of each memoized loader and what they returned

tierVars  == <<rankings_df, tier_column, theme_tickers_df, tier_call, actionable, analysis>>
stageVars == <<signals, stage_out>>
cmpVars   == <<rankings, lookback_days, changes, pct_change, change_status>>
graphInputs == <<df, consolidated, actionable_df>>
searchVars == <<match_call, search_call, search_result>>
graphVars == <<graphInputs, response, rebuilt, searchVars>>
bandInputs == <<HAS_PRICE_DATA, price_files, bb_candidates, price_cache_file, master_file>>
batchVars == <<tickers_file, green_tickers, tstop_tickers, candidates_out, distribution>>
memoVars  == <<unreadable, memo>>
bandVars  == <<bandInputs, category_cache, price_cache, price_info, crossovers, caller,
               batchVars, memoVars>>

\* values of the variables a specification does not use, and of results not
\* yet produced
NoTierCall   == [done |-> FALSE, combined_score |-> 0, fiedler |-> 0, result |-> "Tier 4"]
NoActionable == [done |-> FALSE, rows |-> <<>>]
NoSummary    == [total_themes |-> 0, tier1_count |-> 0, tier2_count |-> 0,
                 tier3_count |-> 0, tier4_count |-> 0]
NoAnalysis   == [done |-> FALSE, error |-> FALSE, summary |-> NoSummary, themes |-> <<>>,
                 top_picks |-> <<>>]
NoSignals    == [momentum |-> 0, bull_ratio |-> 0, in_green |-> FALSE, in_tstop |-> FALSE]
NoStage      == [done |-> FALSE, stage |-> "", priority |-> ""]
NoChanges    == [done |-> FALSE, raised |-> FALSE, empty |-> TRUE, latest_date |-> 0,
                 compare_date |-> 0, merged |-> <<>>]

TierIdle  == /\ rankings_df = <<>> /\ tier_column = FALSE /\ theme_tickers_df = <<>>
             /\ tier_call = NoTierCall /\ actionable = NoActionable /\ analysis = NoAnalysis
StageIdle == signals = NoSignals /\ stage_out = NoStage
NoPct        == [num |-> 0, den |-> 1]
NoStatus     == [done |-> FALSE, status |-> ""]
ChangeIdle == pct_change = NoPct /\ change_status = NoStatus
ChangesIdle == rankings = <<>> /\ lookback_days = 0 /\ changes = NoChanges
CmpIdle   == ChangesIdle /\ ChangeIdle
NoResponse == [done |-> FALSE, status |-> 0, mode |-> "", stock |-> <<>>, theme |-> <<>>,
               depth |-> 0, nodes |-> <<>>, edges |-> <<>>]
NoMatchCall == [done |-> FALSE, query |-> <<>>, text |-> <<>>, result |-> FALSE]
NoSearchCall == [q |-> <<>>, limit |-> 0]
NoSearchResult == [done |-> FALSE, status |-> 0, stocks |-> <<>>, themes |-> <<>>,
                   stock_count |-> 0, theme_count |-> 0]
SearchIdle == /\ match_call = NoMatchCall /\ search_call = NoSearchCall
              /\ search_result = NoSearchResult
GraphIdle == /\ df = <<>> /\ consolidated = <<>> /\ actionable_df = <<>>
             /\ response = NoResponse /\ rebuilt = NoResponse /\ SearchIdle
\* a global cache still None
Unset == [loaded |-> FALSE, table |-> <<>>]
NoPriceInfo == [done |-> FALSE, ticker |-> <<>>, empty |-> TRUE, info |-> <<>>]
NoCrossovers == [done |-> FALSE, limit |-> 0, min_date |-> 0, min_price |-> 0,
                 tickers |-> <<>>]
\* the threads that call get_category_mapping, none of them having started
Callers == {1, 2}
NotCalling == [pc |-> "idle", next_row |-> 0, hit |-> FALSE, filling |-> FALSE,
               table |-> <<>>]
NoCallers == [c \in Callers |-> NotCalling]
NoFile == [exists |-> FALSE, rows |-> <<>>]
NoFilters == [stage |-> <<>>, min_score |-> 0, priority |-> <<>>, theme |-> <<>>]
NoCandidates == [done |-> FALSE, status |-> 0, limit |-> 0, candidates |-> <<>>, count |-> 0,
                 total_available |-> 0, stage_distribution |-> <<>>,
                 filters_applied |-> NoFilters]
NoDistribution == [done |-> FALSE, status |-> 0, stages |-> <<>>, priorities |-> <<>>,
                   total |-> 0]
BatchIdle == /\ tickers_file = NoFile /\ green_tickers = {} /\ tstop_tickers = {}
             /\ candidates_out = NoCandidates /\ distribution = NoDistribution
NoCalls == [calls |-> 0, reads |-> 0, raised |-> FALSE, first |-> <<>>, last |-> <<>>]
NoMemo == [category |-> NoCalls, prices |-> NoCalls]
MemoIdle == unreadable = {} /\ memo = NoMemo
BandIdle  == /\ caller = NoCallers
             /\ BatchIdle
             /\ MemoIdle
             /\ HAS_PRICE_DATA = FALSE /\ price_files = <<>> /\ bb_candidates = <<>>
             /\ price_cache_file = <<>> /\ master_file = <<>>
             /\ category_cache = Unset /\ price_cache = Unset
             /\ price_info = NoPriceInfo /\ crossovers = NoCrossovers

(***************************************************************************)
(* Generic helpers (python built-ins)                                      *)
(***************************************************************************)
Range(s) == {s[i] : i \in 1..Len(s)}

Head_n(s, n) == SubSeq(s, 1, IF Len(s) < n THEN Len(s) ELSE n)

RECURSIVE Concat(_)
Concat(ss) == IF ss = <<>> THEN <<>> ELSE Head(ss) \o Concat(Tail(ss))

\* Series.unique(): first occurrences, in order
RECURSIVE unique(_)
unique(s) ==
    IF s = <<>> THEN <<>>
    ELSE LET u == unique(SubSeq(s, 1, Len(s) - 1))
         IN  IF s[Len(s)] \in Range(u) THEN u ELSE Append(u, s[Len(s)])

(***************************************************************************)
(* config.py                                                               *)
(***************************************************************************)
TIER_THRESHOLDS == [tier1 |-> 750, tier2 |-> 300, tier3 |-> 100]

SCORE_THRESHOLDS == [tier1 |-> 20, tier2 |-> 10, tier3 |-> 5]

Tiers == {"Tier 1", "Tier 2", "Tier 3", "Tier 4"}

(***************************************************************************)
(* generate_actionable_tickers.py                                          *)
(***************************************************************************)
calculate_tier_flipped(combined_score) ==
    IF combined_score <= TIER_THRESHOLDS.tier1 THEN "Tier 1"
    ELSE IF combined_score >= TIER_THRESHOLDS.tier2 THEN "Tier 2"
    ELSE IF combined_score >= TIER_THRESHOLDS.tier3 THEN "Tier 3"
    ELSE "Tier 4"

calculate_tier(combined_score) ==
    IF combined_score >= TIER_THRESHOLDS.tier1 THEN "Tier 1"
    ELSE IF combined_score >= TIER_THRESHOLDS.tier2 THEN "Tier 2"
    ELSE IF combined_score >= TIER_THRESHOLDS.tier3 THEN "Tier 3"
    ELSE "Tier 4"

\* row.get('tier', calculate_tier(row['combined_score']))
row_tier(row, has_column) ==
    IF has_column THEN row.tier ELSE calculate_tier(row.combined_score)

\* stable sort by weight, descending (insertion sort)
RECURSIVE InsertByWeight(_, _)
InsertByWeight(r, s) ==
    IF s = <<>> THEN <<r>>
    ELSE IF Head(s).weight >= r.weight THEN <<Head(s)>> \o InsertByWeight(r, Tail(s))
    ELSE <<r>> \o s

RECURSIVE SortByWeightDesc(_)
SortByWeightDesc(s) ==
    IF s = <<>> THEN <<>>
    ELSE InsertByWeight(s[Len(s)], SortByWeightDesc(SubSeq(s, 1, Len(s) - 1)))

get_top_tickers_for_theme(theme, frame, n) ==
    LET theme_data == SelectSeq(frame, LAMBDA r : r.theme = theme)
    IN  Head_n(SortByWeightDesc(theme_data), n)

ActionableRows(row, has_column, frame) ==
    LET tier == row_tier(row, has_column)
        top_tickers == get_top_tickers_for_theme(row.theme, frame, 10)
    IN  [k \in 1..Len(top_tickers) |->
            [theme |-> row.theme,
             ticker |-> top_tickers[k].ticker,
             weight_in_theme |-> top_tickers[k].weight,
             tier |-> tier,
             combined_score |-> row.combined_score,
             fiedler |-> row.fiedler]]

generate_actionable_tickers(rdf, has_column, frame) ==
    Concat([i \in 1..Len(rdf) |-> ActionableRows(rdf[i], has_column, frame)])

\* sorted(top_picks, key=combined_score, reverse=True): stable
RECURSIVE InsertByScore(_, _)
InsertByScore(r, s) ==
    IF s = <<>> THEN <<r>>
    ELSE IF Head(s).combined_score >= r.combined_score
    THEN <<Head(s)>> \o InsertByScore(r, Tail(s))
    ELSE <<r>> \o s

RECURSIVE SortByScoreDesc(_)
SortByScoreDesc(s) ==
    IF s = <<>> THEN <<>>
    ELSE InsertByScore(s[Len(s)], SortByScoreDesc(SubSeq(s, 1, Len(s) - 1)))

\* analysis['themes']: one entry per ranking row, a later row of the same theme
\* overwriting an earlier one
analysis_themes(rdf, has_column, frame) ==
    LET themes == {rdf[i].theme : i \in 1..Len(rdf)}
        last(t) == CHOOSE i \in 1..Len(rdf) :
                      /\ rdf[i].theme = t
                      /\ \A j \in 1..Len(rdf) : rdf[j].theme = t => j <= i
    IN  [t \in themes |->
            [tier |-> row_tier(rdf[last(t)], has_column),
             combined_score |-> rdf[last(t)].combined_score,
             fiedler |-> rdf[last(t)].fiedler,
             top_tickers |-> get_top_tickers_for_theme(t, frame, 5)]]

\* analysis['top_picks']: up to three tickers of every Tier 1 or Tier 2 theme, in
\* the order of the themes dict, then sorted by score and cut to 20
analysis_top_picks(themes, order) ==
    Head_n(SortByScoreDesc(
        Concat([i \in 1..Len(order) |->
            LET data == themes[order[i]]
                picks == Head_n(data.top_tickers, 3)
            IN  IF data.tier \in {"Tier 1", "Tier 2"}
                THEN [k \in 1..Len(picks) |->
                        [ticker |-> picks[k].ticker, theme |-> order[i],
                         tier |-> data.tier, combined_score |-> data.combined_score]]
                ELSE <<>>])), 20)

generate_consolidated_analysis(rdf, has_column, frame) ==
    LET themes == analysis_themes(rdf, has_column, frame)
        order == unique([i \in 1..Len(rdf) |-> rdf[i].theme])
        count(t) == Cardinality({i \in 1..Len(rdf) : rdf[i].tier = t})
    IN  [summary |-> [total_themes |-> Len(rdf),
                      tier1_count |-> count("Tier 1"), tier2_count |-> count("Tier 2"),
                      tier3_count |-> count("Tier 3"), tier4_count |-> count("Tier 4")],
         themes |-> themes,
         top_picks |-> analysis_top_picks(themes, order)]

(***************************************************************************)
(* Tier specification: inputs drawn in TierInit, one action per function   *)
(***************************************************************************)
MaxRows == 2
MaxTickerRows == 2

TierThemes == {"ai", "defi"}
TierTickers == {"BTC", "ETH"}
TierScores == {4, 20, 300, 750}
TierFiedlers == {0, 750}
TierWeights == {1, 2}

RankingRows == [theme : TierThemes, combined_score : TierScores,
                fiedler : TierFiedlers, tier : Tiers]

TickerRows == [theme : TierThemes, ticker : TierTickers, weight : TierWeights]

SeqsUpTo(S, n) == UNION {[1..k -> S] : k \in 0..n}

DistinctThemes(s) == \A i, j \in 1..Len(s) : s[i].theme = s[j].theme => i = j

\* without a 'tier' column the rows carry no tier; the field is then fixed
NoTierField(s) == \A i \in 1..Len(s) : s[i].tier = "Tier 4"

TierInit ==
    /\ tier_column \in BOOLEAN
    /\ rankings_df \in {s \in SeqsUpTo(RankingRows, MaxRows) :
                          /\ s # <<>>
                          /\ DistinctThemes(s)
                          /\ (~tier_column => NoTierField(s))}
    /\ theme_tickers_df \in {s \in SeqsUpTo(TickerRows, MaxTickerRows) :
                          \A i, j \in 1..Len(s) :
                              (s[i].theme = s[j].theme /\ s[i].ticker = s[j].ticker) => i = j}
    /\ tier_call = NoTierCall
    /\ actionable = NoActionable
    /\ analysis = NoAnalysis
    /\ StageIdle
    /\ CmpIdle
    /\ GraphIdle
    /\ BandIdle

CalculateTier ==
    /\ ~tier_call.done
    /\ \E i \in 1..Len(rankings_df) :
          tier_call' = [done |-> TRUE,
                        combined_score |-> rankings_df[i].combined_score,
                        fiedler |-> rankings_df[i].fiedler,
                        result |-> calculate_tier(rankings_df[i].combined_score)]
    /\ UNCHANGED <<rankings_df, tier_column, theme_tickers_df, actionable, analysis>>
    /\ UNCHANGED <<stageVars, cmpVars, graphVars, bandVars>>

GenerateActionableTickers ==
    /\ ~actionable.done
    /\ actionable' = [done |-> TRUE, rows |-> generate_actionable_tickers(rankings_df, tier_column, theme_tickers_df)]
    /\ UNCHANGED <<rankings_df, tier_column, theme_tickers_df, tier_call, analysis>>
    /\ UNCHANGED <<stageVars, cmpVars, graphVars, bandVars>>

\* rankings_df['tier'] of the summary raises KeyError without the column
GenerateConsolidatedAnalysis ==
    /\ ~analysis.done
    /\ analysis' = IF tier_column
                   THEN LET r == generate_consolidated_analysis(rankings_df, tier_column,
                                                               theme_tickers_df)
                        IN  [done |-> TRUE, error |-> FALSE, summary |-> r.summary,
                             themes |-> r.themes, top_picks |-> r.top_picks]
                   ELSE [NoAnalysis EXCEPT !.done = TRUE, !.error = TRUE]
    /\ UNCHANGED <<rankings_df, tier_column, theme_tickers_df, tier_call, actionable>>
    /\ UNCHANGED <<stageVars, cmpVars, graphVars, bandVars>>

TierNext == CalculateTier \/ GenerateActionableTickers \/ GenerateConsolidatedAnalysis

(***************************************************************************)
(* Tier classifier specification: calculate_tier on one row, with scores   *)
(* and cohesion values on and around every threshold                       *)
(***************************************************************************)
TierCallScores == {-5, 0, 4, 5, 10, 20, 99, 100, 101, 299, 300, 301, 749, 750, 751, 1000}
TierCallFiedlers == {0, 50, 100, 300, 750, 1000}

TierCallInit ==
    /\ tier_column = FALSE
    /\ \E score \in TierCallScores, cohesion \in TierCallFiedlers :
          rankings_df = <<[theme |-> "ai", combined_score |-> score, fiedler |-> cohesion,
                           tier |-> "Tier 4"]>>
    /\ theme_tickers_df = <<>>
    /\ tier_call = NoTierCall
    /\ actionable = NoActionable
    /\ analysis = NoAnalysis
    /\ StageIdle
    /\ CmpIdle
    /\ GraphIdle
    /\ BandIdle

TierCallNext == CalculateTier

(***************************************************************************)
(* dashboard/backend/routers/breakout.py: stage classifier                 *)
(***************************************************************************)
get_stage_from_signals_bull_strict(momentum, bull_ratio, in_green, in_tstop) ==
    IF momentum > 10 /\ bull_ratio > 50
    THEN (IF in_green THEN <<"Super Trend", "HIGH">> ELSE <<"Early Breakout", "HIGH">>)
    ELSE IF momentum > 5
    THEN (IF in_tstop THEN <<"Early Breakout", "MEDIUM">> ELSE <<"Burgeoning", "MEDIUM">>)
    ELSE IF momentum > 0 THEN <<"Building", "LOW">>
    ELSE IF momentum < -5 THEN <<"Bear Volatile", "AVOID">>
    ELSE <<"Consolidation", "LOW">>

get_stage_from_signals(momentum, bull_ratio, in_green, in_tstop) ==
    IF momentum > 10 /\ bull_ratio >= 50
    THEN (IF in_green THEN <<"Super Trend", "HIGH">> ELSE <<"Early Breakout", "HIGH">>)
    ELSE IF momentum > 5
    THEN (IF in_tstop THEN <<"Early Breakout", "MEDIUM">> ELSE <<"Burgeoning", "MEDIUM">>)
    ELSE IF momentum > 0 THEN <<"Building", "LOW">>
    ELSE IF momentum < -5 THEN <<"Bear Volatile", "AVOID">>
    ELSE <<"Consolidation", "LOW">>

(***************************************************************************)
(* Stage specification                                                     *)
(***************************************************************************)
StageMomenta == {-6, -5, -4, 0, 1, 5, 6, 10, 11}
StageBullRatios == {49, 50, 51}

StageInit ==
    /\ signals \in [momentum : StageMomenta, bull_ratio : StageBullRatios,
                    in_green : BOOLEAN, in_tstop : BOOLEAN]
    /\ stage_out = NoStage
    /\ TierIdle
    /\ CmpIdle
    /\ GraphIdle
    /\ BandIdle

GetStageFromSignals ==
    /\ ~stage_out.done
    /\ LET r == get_stage_from_signals(signals.momentum, signals.bull_ratio,
                                       signals.in_green, signals.in_tstop)
       IN  stage_out' = [done |-> TRUE, stage |-> r[1], priority |-> r[2]]
    /\ UNCHANGED <<signals, tierVars, cmpVars, graphVars, bandVars>>

StageNext == GetStageFromSignals

(***************************************************************************)
(* analyze_cohesion_changes.py                                             *)
(***************************************************************************)
\* datetime.strptime(d, "%Y%m%d") as a day count; the keys used lie in the
\* non-leap years 2025..2027
DaysBeforeMonth == <<0, 31, 59, 90, 120, 151, 181, 212, 243, 273, 304, 334>>

strptime(d) ==
    LET y == d \div 10000
        m == (d \div 100) % 100
        dd == d % 100
    IN  (y - 2025) * 365 + DaysBeforeMonth[m] + dd

\* sorted(rankings.keys(), reverse=True)
RECURSIVE SortedDesc(_)
SortedDesc(S) ==
    IF S = {} THEN <<>>
    ELSE LET mx == CHOOSE x \in S : \A y \in S : y <= x
         IN  <<mx>> \o SortedDesc(S \ {mx})

\* the loop over dates[1:]: first date at or before target_date, 0 if none
RECURSIVE find_compare_date_strict(_, _)
find_compare_date_strict(ds, target_date) ==
    IF ds = <<>> THEN 0
    ELSE IF strptime(Head(ds)) < target_date THEN Head(ds)
    ELSE find_compare_date_strict(Tail(ds), target_date)

RECURSIVE find_compare_date(_, _)
find_compare_date(ds, target_date) ==
    IF ds = <<>> THEN 0
    ELSE IF strptime(Head(ds)) <= target_date THEN Head(ds)
    ELSE find_compare_date(Tail(ds), target_date)

\* merged['fiedler_change'] / merged['fiedler_prev'].replace(0, 1) * 100, as the
\* exact fraction num/den (1.0 is 100 hundredths)
fiedler_pct_change_no_replace(fiedler_change, fiedler_prev) ==
    [num |-> fiedler_change * 100, den |-> fiedler_prev]

fiedler_pct_change(fiedler_change, fiedler_prev) ==
    [num |-> fiedler_change * 100,
     den |-> IF fiedler_prev = 0 THEN 100 ELSE fiedler_prev]

\* classify_cohesion(row), on row['fiedler']
classify_cohesion(fiedler) ==
    IF fiedler >= 300 THEN "VERY STRONG"
    ELSE IF fiedler >= 150 THEN "STRONG"
    ELSE IF fiedler >= 50 THEN "MODERATE"
    ELSE "WEAK"

\* p >= k and p <= k for a percentage p = num/den and a whole number k
pct_ge(p, k) == IF p.den > 0 THEN p.num >= k * p.den ELSE p.num <= k * p.den
pct_le(p, k) == IF p.den > 0 THEN p.num <= k * p.den ELSE p.num >= k * p.den

\* classify_change(pct_change); the labels are written without their arrows
classify_change_above(p) ==
    IF ~pct_le(p, 20) THEN "ENHANCED"
    ELSE IF pct_ge(p, 5) THEN "IMPROVING"
    ELSE IF pct_le(p, -20) THEN "DECLINING"
    ELSE IF pct_le(p, -5) THEN "WEAKENING"
    ELSE "STABLE"

classify_change(p) ==
    IF pct_ge(p, 20) THEN "ENHANCED"
    ELSE IF pct_ge(p, 5) THEN "IMPROVING"
    ELSE IF pct_le(p, -20) THEN "DECLINING"
    ELSE IF pct_le(p, -5) THEN "WEAKENING"
    ELSE "STABLE"

\* latest_df.merge(compare_df[[...]], on='theme', suffixes=('', '_prev')):
\* inner join, in the order of the left frame
merge(latest_df, compare_df) ==
    Concat([i \in 1..Len(latest_df) |->
        LET l == latest_df[i]
            right == SelectSeq(compare_df, LAMBDA r : r.theme = l.theme)
        IN  [k \in 1..Len(right) |->
                [theme |-> l.theme, fiedler |-> l.fiedler, momentum |-> l.momentum,
                 combined_score |-> l.combined_score,
                 fiedler_prev |-> right[k].fiedler,
                 momentum_prev |-> right[k].momentum,
                 combined_score_prev |-> right[k].combined_score]]])

\* the test that sends the call to its first return pd.DataFrame()
not_enough_never(dates) == FALSE

not_enough(dates) == Len(dates) < 2

\* dates[0] of an empty list raises IndexError; the second return pd.DataFrame()
\* is for a loop and a fallback that found no comparison date (0 here)
calculate_cohesion_changes(rnk, lookback) ==
    LET dates == SortedDesc(DOMAIN rnk)
    IN  IF not_enough(dates) THEN [NoChanges EXCEPT !.done = TRUE]
        ELSE IF dates = <<>> THEN [NoChanges EXCEPT !.done = TRUE, !.raised = TRUE]
        ELSE
        LET latest_date == dates[1]
            target_date == strptime(latest_date) - lookback
            found == find_compare_date(Tail(dates), target_date)
            compare_date == IF found # 0 THEN found
                            ELSE IF Len(dates) > 1 THEN dates[2] ELSE 0
        IN  IF compare_date = 0 THEN [NoChanges EXCEPT !.done = TRUE]
            ELSE
        LET merged == merge(rnk[latest_date], rnk[compare_date])
        IN  [done |-> TRUE, raised |-> FALSE, empty |-> FALSE,
             latest_date |-> latest_date, compare_date |-> compare_date,
             merged |-> [i \in 1..Len(merged) |->
                 LET m == merged[i]
                     fiedler_change == m.fiedler - m.fiedler_prev
                     pct == fiedler_pct_change(fiedler_change, m.fiedler_prev)
                 IN  [theme |-> m.theme,
                      fiedler |-> m.fiedler, fiedler_prev |-> m.fiedler_prev,
                      fiedler_change |-> fiedler_change,
                      fiedler_pct_change |-> pct,
                      momentum_change |-> m.momentum - m.momentum_prev,
                      score_change |-> m.combined_score - m.combined_score_prev,
                      cohesion_status |-> classify_cohesion(m.fiedler),
                      change_status |-> classify_change(pct)]]]

\* the frame latest_df once the call is over, had merge() handed back latest_df
\* itself: the columns assigned to merged would be columns of the snapshot
latest_df_after_in_place(latest_df, merged) == merged

\* the frame latest_df once the call is over: merge() builds a new frame, and
\* every column assigned afterwards is assigned to that new frame
latest_df_after(latest_df, merged) == latest_df

\* the rankings dict once the call is over: the call reads its keys and two of
\* its frames, compare_df through the copy compare_df[[...]]
rankings_after(rnk, lookback) ==
    LET result == calculate_cohesion_changes(rnk, lookback)
    IN  IF result.empty THEN rnk
        ELSE [rnk EXCEPT ![result.latest_date] =
                            latest_df_after(rnk[result.latest_date], result.merged)]

(***************************************************************************)
(* Comparator specification                                                *)
(***************************************************************************)
MaxSnapshots == 3

CmpDates == {20250124, 20250125, 20250131, 20250201}
CmpLookbacks == {1, 7}
CmpThemes == {"ai", "defi"}
CmpMetrics == {[fiedler |-> 0, momentum |-> 5, combined_score |-> 10],
               [fiedler |-> 500, momentum |-> 0, combined_score |-> 20],
               [fiedler |-> 600, momentum |-> -5, combined_score |-> 10]}

CmpRows == {[theme |-> t, fiedler |-> m.fiedler, momentum |-> m.momentum,
             combined_score |-> m.combined_score] : t \in CmpThemes, m \in CmpMetrics}

CmpSnapshots == {s \in SeqsUpTo(CmpRows, Cardinality(CmpThemes)) : DistinctThemes(s)}

CmpInit ==
    /\ \E D \in SUBSET CmpDates :
          /\ Cardinality(D) <= MaxSnapshots
          /\ rankings \in [D -> CmpSnapshots]
    /\ lookback_days \in CmpLookbacks
    /\ changes = NoChanges
    /\ ChangeIdle
    /\ TierIdle
    /\ StageIdle
    /\ GraphIdle
    /\ BandIdle

CalculateCohesionChanges ==
    /\ ~changes.done
    /\ changes' = calculate_cohesion_changes(rankings, lookback_days)
    /\ rankings' = rankings_after(rankings, lookback_days)
    /\ UNCHANGED <<lookback_days, pct_change, change_status>>
    /\ UNCHANGED <<tierVars, stageVars, graphVars, bandVars>>

CmpNext == CalculateCohesionChanges

(***************************************************************************)
(* Change classifier specification: classify_change on percentages counted *)
(* in thousandths, around every threshold                                  *)
(***************************************************************************)
ChangePcts == {[num |-> n, den |-> 1000] :
                 n \in {m \in -22000..22000 : m % 1000 \in {0, 1, 999}}}

ChangeInit ==
    /\ pct_change \in ChangePcts
    /\ change_status = NoStatus
    /\ ChangesIdle
    /\ TierIdle
    /\ StageIdle
    /\ GraphIdle
    /\ BandIdle

ClassifyChange ==
    /\ ~change_status.done
    /\ change_status' = [done |-> TRUE, status |-> classify_change(pct_change)]
    /\ UNCHANGED <<rankings, lookback_days, changes, pct_change>>
    /\ UNCHANGED <<tierVars, stageVars, graphVars, bandVars>>

ChangeNext == ClassifyChange

(***************************************************************************)
(* dashboard/backend/routers/network.py: graph builder                     *)
(*                                                                         *)
(* A string is a sequence of tokens: "_" and the letters are tokens of     *)
(* their own, and the words theme, stock and edge of the id prefixes are   *)
(* tokens too (names are written in other letters, so a string has one     *)
(* tokenisation and equal strings are equal sequences).                    *)
(***************************************************************************)
theme_ == <<"theme", "_">>
stock_ == <<"stock", "_">>
edge_  == <<"edge", "_">>

\* str.upper(), token by token
UpperToken(c) ==
    CASE c = "x" -> "X" [] c = "y" -> "Y" [] c = "a" -> "A" [] c = "b" -> "B"
      [] c = "btc" -> "BTC" [] c = "eth" -> "ETH" [] c = "sol" -> "SOL"
      [] c = "high" -> "HIGH" [] c = "High" -> "HIGH"
      [] OTHER -> c

upper(str) == [i \in 1..Len(str) |-> UpperToken(str[i])]

\* get_themes_dict(consolidated).get(theme_name, {}) with the defaults of the
\* .get calls that read it
theme_info(cons, theme_name) ==
    IF \E i \in 1..Len(cons) : cons[i].theme = theme_name
    THEN LET i == CHOOSE i \in 1..Len(cons) : cons[i].theme = theme_name
         IN  [tier |-> cons[i].tier, fiedler |-> cons[i].fiedler]
    ELSE [tier |-> "Tier 4", fiedler |-> 0]

get_cohesion_color(fiedler) ==
    IF fiedler > 300 THEN "#10b981"
    ELSE IF fiedler >= 100 THEN "#3b82f6"
    ELSE IF fiedler >= 50 THEN "#f59e0b"
    ELSE "#ef4444"

get_cohesion_level(fiedler) ==
    IF fiedler > 300 THEN "very_strong"
    ELSE IF fiedler >= 100 THEN "strong"
    ELSE IF fiedler >= 50 THEN "moderate"
    ELSE "weak"

\* node_ids kept from the request before instead of starting from set()
NewGraph_kept ==
    [nodes |-> <<>>, edges |-> <<>>,
     node_ids |-> {response.nodes[i].id : i \in 1..Len(response.nodes)}
                     \cup {response.edges[i].id : i \in 1..Len(response.edges)}]

\* nodes = [], edges = [], node_ids = set(): local to each request
NewGraph == [nodes |-> <<>>, edges |-> <<>>, node_ids |-> {}]

\* a node only for a theme that the consolidated analysis knows
add_theme_node_known(g, theme_name, cons) ==
    LET node_id == theme_ \o theme_name
        info == theme_info(cons, theme_name)
    IN  IF node_id \in g.node_ids \/ \A i \in 1..Len(cons) : cons[i].theme # theme_name
        THEN g
        ELSE [g EXCEPT !.node_ids = @ \cup {node_id},
                       !.nodes = Append(@, [id |-> node_id, label |-> theme_name,
                                            type |-> "theme", tier |-> info.tier,
                                            fiedler |-> info.fiedler, size |-> 25,
                                            color |-> get_cohesion_color(info.fiedler)])]

add_theme_node(g, theme_name, cons) ==
    LET node_id == theme_ \o theme_name
        info == theme_info(cons, theme_name)
    IN  IF node_id \in g.node_ids THEN g
        ELSE [g EXCEPT !.node_ids = @ \cup {node_id},
                       !.nodes = Append(@, [id |-> node_id, label |-> theme_name,
                                            type |-> "theme", tier |-> info.tier,
                                            fiedler |-> info.fiedler, size |-> 25,
                                            color |-> get_cohesion_color(info.fiedler)])]

Min(a, b) == IF a < b THEN a ELSE b
Max(a, b) == IF a > b THEN a ELSE b

\* buy_pct and signal of a ticker; a score in hundredths times 500 is 5 per hundredth
stock_signal(ticker, act) ==
    LET ticker_data == SelectSeq(act, LAMBDA r : r.ticker = ticker)
    IN  IF act = <<>> \/ ticker_data = <<>> THEN [buy_pct |-> 50, signal |-> "neutral"]
        ELSE LET buy_pct == Min(100, Max(0, ticker_data[1].combined_score * 5))
             IN  [buy_pct |-> buy_pct,
                  signal |-> IF buy_pct >= 70 THEN "strong_buy"
                             ELSE IF buy_pct >= 50 THEN "buy"
                             ELSE IF buy_pct >= 30 THEN "neutral"
                             ELSE "avoid"]

signal_color(signal) ==
    IF signal = "strong_buy" THEN "#059669"
    ELSE IF signal = "buy" THEN "#10b981"
    ELSE IF signal = "neutral" THEN "#f59e0b"
    ELSE "#ef4444"

add_stock_node(g, ticker, company, is_center, act) ==
    LET node_id == stock_ \o ticker
        sig == stock_signal(ticker, act)
    IN  IF node_id \in g.node_ids THEN g
        ELSE [g EXCEPT !.node_ids = @ \cup {node_id},
                       !.nodes = Append(@, [id |-> node_id, label |-> ticker,
                                            type |-> "stock", ticker |-> ticker,
                                            company |-> company, signal |-> sig.signal,
                                            score |-> sig.buy_pct,
                                            size |-> IF is_center THEN 45 ELSE 30,
                                            color |-> signal_color(sig.signal),
                                            isCenter |-> is_center])]

\* an edge without a 'value' key has value 0 here
add_edge(g, from_id, to_id) ==
    LET edge_id == edge_ \o from_id \o <<"_">> \o to_id
    IN  IF edge_id \in g.node_ids THEN g
        ELSE [g EXCEPT !.node_ids = @ \cup {edge_id},
                       !.edges = Append(@, [id |-> edge_id, from |-> from_id,
                                            to |-> to_id, value |-> 0])]

TopK == 15
OtherThemesCap == 5

\* the loop "for theme_name in stock_themes" of the stock mode
add_stock_themes_first(g, stock_upper, stock_themes, cons) ==
    IF stock_themes = <<>> THEN g
    ELSE add_edge(add_theme_node(g, Head(stock_themes), cons),
                  stock_ \o stock_upper, theme_ \o Head(stock_themes))

RECURSIVE add_stock_themes(_, _, _, _)
add_stock_themes(g, stock_upper, stock_themes, cons) ==
    IF stock_themes = <<>> THEN g
    ELSE add_stock_themes(
            add_edge(add_theme_node(g, Head(stock_themes), cons),
                     stock_ \o stock_upper, theme_ \o Head(stock_themes)),
            stock_upper, Tail(stock_themes), cons)

\* the loop "for other_theme in other_themes[:5]" of the depth 2 expansion; the
\* test g1 = g1 has the graph of one pass computed before the next pass starts
RECURSIVE add_other_themes(_, _, _, _, _)
add_other_themes(g, ticker, theme, other_themes, cons) ==
    IF other_themes = <<>> THEN g
    ELSE LET o == Head(other_themes)
             g1 == IF o # theme
                   THEN add_edge(add_theme_node(g, o, cons), stock_ \o ticker, theme_ \o o)
                   ELSE g
         IN  IF g1 = g1 THEN add_other_themes(g1, ticker, theme, Tail(other_themes), cons)
             ELSE g1

\* df[df['theme'] == theme].sort_values('weight', ascending=False).head(15)
theme_stocks_unsorted(frame, theme) ==
    Head_n(SelectSeq(frame, LAMBDA r : r.theme = theme), TopK)

theme_stocks(frame, theme) ==
    Head_n(SortByWeightDesc(SelectSeq(frame, LAMBDA r : r.theme = theme)), TopK)

\* the loop "for _, row in theme_stocks.iterrows()" of the theme mode
RECURSIVE add_theme_stocks(_, _, _, _, _, _, _)
add_theme_stocks(g, theme, stocks_left, depth, frame, cons, act) ==
    IF stocks_left = <<>> THEN g
    ELSE LET row == Head(stocks_left)
             g1 == add_stock_node(g, row.ticker, row.company, FALSE, act)
             g2 == add_edge(g1, theme_ \o theme, stock_ \o row.ticker)
             rows == SelectSeq(frame, LAMBDA r : r.ticker = row.ticker)
             other_themes == unique([i \in 1..Len(rows) |-> rows[i].theme])
             g3 == IF depth >= 2
                   THEN add_other_themes(g2, row.ticker, theme,
                                         Head_n(other_themes, OtherThemesCap), cons)
                   ELSE g2
         IN  IF g3 = g3
             THEN add_theme_stocks(g3, theme, Tail(stocks_left), depth, frame, cons, act)
             ELSE g3

\* the loop "for theme_name, theme_info in themes.items()" of the global mode
RECURSIVE add_all_themes(_, _, _)
add_all_themes(g, theme_list, cons) ==
    IF theme_list = <<>> THEN g
    ELSE add_all_themes(add_theme_node(g, Head(theme_list), cons), Tail(theme_list), cons)

\* theme_stocks[theme_name] = set(theme_df['ticker'].unique())
theme_stock_set(frame, theme_name) ==
    {frame[i].ticker : i \in {j \in 1..Len(frame) : frame[j].theme = theme_name}}

\* the edge appended for theme_list[i], theme_list[j] (i < j), if any
shared_edge_any(frame, theme1, theme2) ==
    LET shared == theme_stock_set(frame, theme1) \cap theme_stock_set(frame, theme2)
    IN  IF Cardinality(shared) >= 1
        THEN <<[id |-> edge_ \o theme1 \o <<"_">> \o theme2,
                from |-> theme_ \o theme1, to |-> theme_ \o theme2,
                value |-> Cardinality(shared)]>>
        ELSE <<>>

shared_edge(frame, theme1, theme2) ==
    LET shared == theme_stock_set(frame, theme1) \cap theme_stock_set(frame, theme2)
    IN  IF Cardinality(shared) >= 2
        THEN <<[id |-> edge_ \o theme1 \o <<"_">> \o theme2,
                from |-> theme_ \o theme1, to |-> theme_ \o theme2,
                value |-> Cardinality(shared)]>>
        ELSE <<>>

\* the nested loops over theme_list and theme_list[i+1:]
global_edges(frame, theme_list) ==
    Concat([i \in 1..Len(theme_list) |->
        Concat([k \in 1..(Len(theme_list) - i) |->
            shared_edge(frame, theme_list[i], theme_list[i + k])])])

\* get_graph_data(stock, theme, depth); an empty string is a parameter not given
get_graph_data(stock, theme, depth, frame, cons, act) ==
    LET base == [done |-> TRUE, status |-> 200, mode |-> "", stock |-> stock,
                 theme |-> theme, depth |-> depth, nodes |-> <<>>, edges |-> <<>>]
    IN  IF stock # <<>> THEN
            LET stock_upper == upper(stock)
                stock_data == SelectSeq(frame, LAMBDA r : upper(r.ticker) = stock_upper)
            IN  IF stock_data = <<>>
                THEN [base EXCEPT !.mode = "stock", !.status = 404]
                ELSE LET g1 == add_stock_node(NewGraph, stock_upper, stock_data[1].company,
                                              TRUE, act)
                         stock_themes == unique([i \in 1..Len(stock_data) |->
                                                    stock_data[i].theme])
                         g == add_stock_themes(g1, stock_upper, stock_themes, cons)
                     IN  [base EXCEPT !.mode = "stock", !.nodes = g.nodes, !.edges = g.edges]
        ELSE IF theme # <<>> THEN
            LET g1 == add_theme_node(NewGraph, theme, cons)
                g == add_theme_stocks(g1, theme, theme_stocks(frame, theme), depth, frame,
                                      cons, act)
            IN  [base EXCEPT !.mode = "theme", !.nodes = g.nodes, !.edges = g.edges]
        ELSE
            LET theme_list == [i \in 1..Len(cons) |-> cons[i].theme]
                g == add_all_themes(NewGraph, theme_list, cons)
            IN  [base EXCEPT !.mode = "global", !.nodes = g.nodes,
                             !.edges = g.edges \o global_edges(frame, theme_list)]

(***************************************************************************)
(* Graph specification                                                     *)
(***************************************************************************)
GraphThemes == <<  <<"a", "_", "b">>, <<"a">>, <<"b", "_", "a">>  >>
GraphTickers == << <<"X">>, <<"x">>, <<"Y">> >>
GraphWeights == {[i \in 1..3 |-> 1], [i \in 1..3 |-> i]}
GraphFiedlers == <<350, 100, 20>>
GraphActionables == {<<>>, <<[ticker |-> <<"X">>, combined_score |-> 15]>>}
GraphStockQueries == {<<"x">>, <<"Y">>, <<"Q">>, <<"K01">>}
GraphDepths == {1, 2, 3}

\* a theme with many members, and the other themes of its members
WideCenter == <<"c">>
WideOthers == << <<"o1">>, <<"o2">>, <<"o3">>, <<"o4">>, <<"o5">>, <<"o6">> >>
WideTickers == << <<"K01">>, <<"K02">>, <<"K03">>, <<"K04">>, <<"K05">>, <<"K06">>,
                  <<"K07">>, <<"K08">>, <<"K09">>, <<"K10">>, <<"K11">>, <<"K12">>,
                  <<"K13">>, <<"K14">>, <<"K15">>, <<"K16">>, <<"K17">> >>

GraphThemeQueries == Range(GraphThemes) \cup {WideCenter}

\* the master frame listing, theme by theme, the tickers of each theme
MemberRows(members, weights) ==
    Concat([t \in 1..Len(GraphThemes) |->
        Concat([k \in 1..Len(GraphTickers) |->
            IF k \in members[t]
            THEN <<[theme |-> GraphThemes[t], ticker |-> GraphTickers[k],
                    company |-> GraphTickers[k], weight |-> weights[k]]>>
            ELSE <<>>])])

\* every ordering of every subset of the themes
ThemeOrders ==
    {o \in SeqsUpTo(1..Len(GraphThemes), Len(GraphThemes)) :
        \A i, j \in 1..Len(o) : o[i] = o[j] => i = j}

GraphInit ==
    /\ \E members \in [1..Len(GraphThemes) -> SUBSET (1..Len(GraphTickers))],
          weights \in GraphWeights, dup \in BOOLEAN :
          LET rows == MemberRows(members, weights)
          IN  df = IF dup /\ rows # <<>> THEN Append(rows, rows[1]) ELSE rows
    /\ \E o \in ThemeOrders :
          consolidated = [i \in 1..Len(o) |->
                             [theme |-> GraphThemes[o[i]], tier |-> "Tier 2",
                              fiedler |-> GraphFiedlers[o[i]]]]
    /\ actionable_df \in GraphActionables
    /\ response = NoResponse
    /\ rebuilt = NoResponse
    /\ SearchIdle
    /\ TierIdle
    /\ StageIdle
    /\ CmpIdle
    /\ BandIdle

GetGraphDataStock ==
    /\ ~response.done
    /\ \E stock \in GraphStockQueries :
          response' = get_graph_data(stock, <<>>, 1, df, consolidated, actionable_df)
    /\ UNCHANGED <<graphInputs, rebuilt, searchVars, tierVars, stageVars, cmpVars, bandVars>>

GetGraphDataTheme ==
    /\ ~response.done
    /\ \E theme \in GraphThemeQueries, depth \in GraphDepths :
          response' = get_graph_data(<<>>, theme, depth, df, consolidated, actionable_df)
    /\ UNCHANGED <<graphInputs, rebuilt, searchVars, tierVars, stageVars, cmpVars, bandVars>>

GetGraphDataGlobal ==
    /\ ~response.done
    /\ response' = get_graph_data(<<>>, <<>>, 1, df, consolidated, actionable_df)
    /\ UNCHANGED <<graphInputs, rebuilt, searchVars, tierVars, stageVars, cmpVars, bandVars>>

GraphNext == GetGraphDataStock \/ GetGraphDataTheme \/ GetGraphDataGlobal

(***************************************************************************)
(* Wide graph specification: the same requests on a master frame with one  *)
(* theme of 14 to 17 members, one of which belongs to up to six other      *)
(* themes                                                                  *)
(***************************************************************************)
WideSizes == {14, 15, 16, 17}
WideWeightings == {"ascending", "descending", "flat"}
WideMemberships == {0, 4, 5, 6}

WideWeight(weighting, k, n) ==
    IF weighting = "ascending" THEN k
    ELSE IF weighting = "descending" THEN n + 1 - k
    ELSE 1

WideRow(theme, k, weight) ==
    [theme |-> theme, ticker |-> WideTickers[k], company |-> WideTickers[k],
     weight |-> weight]

\* the rows of the center theme, then or before them the rows of the member hub
\* in m other themes, and of a second member in the first two of them
WideFrame(n, weighting, hub, m, center_first, pair) ==
    LET center == [k \in 1..n |-> WideRow(WideCenter, k, WideWeight(weighting, k, n))]
        hub_rows == [j \in 1..m |-> WideRow(WideOthers[j], hub, 1)]
        pair_rows == IF pair /\ m >= 2
                     THEN [j \in 1..2 |-> WideRow(WideOthers[j], (hub % n) + 1, 1)]
                     ELSE <<>>
    IN  IF center_first THEN center \o hub_rows \o pair_rows
        ELSE hub_rows \o pair_rows \o center

WideConsolidated ==
    <<[theme |-> WideCenter, tier |-> "Tier 1", fiedler |-> 800]>>
        \o [j \in 1..Len(WideOthers) |->
                [theme |-> WideOthers[j], tier |-> "Tier 3", fiedler |-> 150]]

WideInit ==
    /\ \E n \in WideSizes, weighting \in WideWeightings, m \in WideMemberships,
          center_first \in BOOLEAN, pair \in BOOLEAN :
          \E hub \in {1, n} :
              df = WideFrame(n, weighting, hub, m, center_first, pair)
    /\ consolidated \in {<<>>, WideConsolidated}
    /\ actionable_df \in {<<>>, <<[ticker |-> <<"K01">>, combined_score |-> 15]>>}
    /\ response = NoResponse
    /\ rebuilt = NoResponse
    /\ SearchIdle
    /\ TierIdle
    /\ StageIdle
    /\ CmpIdle
    /\ BandIdle

(***************************************************************************)
(* Repeated request specification: the request that was answered is made   *)
(* once more while the three input tables stay as they are                 *)
(***************************************************************************)
GetGraphDataAgain ==
    /\ response.done
    /\ ~rebuilt.done
    /\ rebuilt' = get_graph_data(response.stock, response.theme, response.depth, df,
                                 consolidated, actionable_df)
    /\ UNCHANGED <<graphInputs, response, searchVars, tierVars, stageVars, cmpVars, bandVars>>

AgainNext == GraphNext \/ GetGraphDataAgain

(***************************************************************************)
(* dashboard/backend/routers/network.py: search                            *)
(*                                                                         *)
(* Here a string is a sequence of characters, " " being the whitespace.    *)
(***************************************************************************)
\* str.lower(), character by character
LowerToken(c) ==
    CASE c = "A" -> "a" [] c = "T" -> "t" [] c = "X" -> "x" [] c = "Y" -> "y"
      [] c = "B" -> "b" [] c = "BTC" -> "btc" [] c = "ETH" -> "eth"
      [] c = "SOL" -> "sol" [] c = "Breakout" -> "breakout"
      [] OTHER -> c

lower(str) == [i \in 1..Len(str) |-> LowerToken(str[i])]

\* str.strip()
RECURSIVE lstrip(_)
lstrip(str) == IF str # <<>> /\ Head(str) = " " THEN lstrip(Tail(str)) ELSE str

RECURSIVE rstrip(_)
rstrip(str) ==
    IF str # <<>> /\ str[Len(str)] = " " THEN rstrip(SubSeq(str, 1, Len(str) - 1)) ELSE str

strip(str) == rstrip(lstrip(str))

\* the operator "in" of two strings
contains(sub, str) ==
    \E i \in 0..(Len(str) - Len(sub)) : SubSeq(str, i + 1, i + Len(sub)) = sub

\* str.split(): the runs of characters between whitespace, word being the run
\* read so far
RECURSIVE split_from(_, _)
split_from(str, word) ==
    IF str = <<>> THEN (IF word = <<>> THEN <<>> ELSE <<word>>)
    ELSE IF Head(str) = " "
    THEN (IF word = <<>> THEN <<>> ELSE <<word>>) \o split_from(Tail(str), <<>>)
    ELSE split_from(Tail(str), Append(word, Head(str)))

split(str) == split_from(str, <<>>)

fuzzy_match_any_word(query, text) ==
    LET query1 == strip(lower(query))
        text1 == lower(text)
        words == split(query1)
    IN  IF contains(query1, text1) THEN TRUE
        ELSE IF Len(words) > 1
        THEN \E k \in 1..Len(words) : contains(words[k], text1)
        ELSE FALSE

fuzzy_match(query, text) ==
    LET query1 == strip(lower(query))
        text1 == lower(text)
        words == split(query1)
    IN  IF contains(query1, text1) THEN TRUE
        ELSE IF Len(words) > 1
        THEN \A k \in 1..Len(words) : contains(words[k], text1)
        ELSE FALSE

\* buy_pct of a matched ticker: 50.0 unless the actionable frame has the ticker
search_buy_pct(ticker, act) ==
    LET ticker_data == SelectSeq(act, LAMBDA r : r.ticker = ticker)
    IN  IF act = <<>> \/ ticker_data = <<>> THEN 50
        ELSE Min(100, Max(0, ticker_data[1].combined_score * 5))

\* f"{company} ({ticker})" if company else ticker
stock_name(company, ticker) ==
    IF company # <<>> THEN company \o <<" ", "(">> \o ticker \o <<")">> ELSE ticker

\* the loop "for _, row in df.iterrows()" of search_all
RECURSIVE search_stocks(_, _, _, _, _, _)
search_stocks(rows, q, limit, act, stock_matches, seen_tickers) ==
    IF rows = <<>> THEN stock_matches
    ELSE LET row == Head(rows)
         IN  IF row.ticker \in seen_tickers
             THEN search_stocks(Tail(rows), q, limit, act, stock_matches, seen_tickers)
             ELSE IF fuzzy_match(q, row.ticker) \/ fuzzy_match(q, row.company)
             THEN LET matches == Append(stock_matches,
                                     [name |-> stock_name(row.company, row.ticker),
                                      ticker |-> row.ticker,
                                      buy_pct |-> search_buy_pct(row.ticker, act),
                                      type |-> "stock"])
                  IN  IF Len(matches) >= limit THEN matches
                      ELSE search_stocks(Tail(rows), q, limit, act, matches,
                                         seen_tickers \cup {row.ticker})
             ELSE search_stocks(Tail(rows), q, limit, act, stock_matches, seen_tickers)

\* the loop "for theme, info in themes.items()" of search_all
RECURSIVE search_themes(_, _, _, _)
search_themes(themes, q, limit, theme_matches) ==
    IF themes = <<>> THEN theme_matches
    ELSE LET info == Head(themes)
         IN  IF fuzzy_match(q, info.theme)
             THEN LET matches == Append(theme_matches,
                                     [theme |-> info.theme, tier |-> info.tier,
                                      fiedler |-> info.fiedler, type |-> "theme"])
                  IN  IF Len(matches) >= limit THEN matches
                      ELSE search_themes(Tail(themes), q, limit, matches)
             ELSE search_themes(Tail(themes), q, limit, theme_matches)

\* theme_matches.sort(key=fiedler, reverse=True): stable
RECURSIVE InsertByFiedler(_, _)
InsertByFiedler(r, s) ==
    IF s = <<>> THEN <<r>>
    ELSE IF Head(s).fiedler >= r.fiedler THEN <<Head(s)>> \o InsertByFiedler(r, Tail(s))
    ELSE <<r>> \o s

RECURSIVE SortByFiedlerDesc(_)
SortByFiedlerDesc(s) ==
    IF s = <<>> THEN <<>>
    ELSE InsertByFiedler(s[Len(s)], SortByFiedlerDesc(SubSeq(s, 1, Len(s) - 1)))

search_all(q, limit, frame, cons, act) ==
    LET stock_matches == search_stocks(frame, q, limit, act, <<>>, {})
        theme_matches == SortByFiedlerDesc(search_themes(cons, q, limit, <<>>))
    IN  [done |-> TRUE, status |-> 200,
         stocks |-> stock_matches, themes |-> theme_matches,
         stock_count |-> Len(stock_matches), theme_count |-> Len(theme_matches)]

(***************************************************************************)
(* Search specification                                                    *)
(***************************************************************************)
MaxQueryLen == 3
MaxTextLen == 3

SearchQueries ==
    (SeqsUpTo({"a", "t", " "}, MaxQueryLen) \ {<<>>})
        \cup {<<"A">>, <<" ", "A", " ">>, <<"T", " ", "a">>, <<"z">>, <<"a", " ", " ", "t">>}

MatchTexts == SeqsUpTo({"a", "T", " "}, MaxTextLen)

SearchRow(ticker, company) == [ticker |-> ticker, company |-> company, theme |-> <<"a">>,
                               weight |-> 1]

SearchFrames ==
    {<<>>,
     <<SearchRow(<<"T", "A">>, <<"t", " ", "a">>), SearchRow(<<"A">>, <<>>),
       SearchRow(<<"T", "A">>, <<"t", " ", "a">>), SearchRow(<<"T">>, <<"a", "a">>)>>,
     <<SearchRow(<<"T">>, <<"a", "a">>), SearchRow(<<"A", "T">>, <<"T">>)>>}

SearchTheme(theme, fiedler) == [theme |-> theme, tier |-> "Tier 2", fiedler |-> fiedler]

SearchThemeLists ==
    {<<>>,
     <<SearchTheme(<<"a">>, 20), SearchTheme(<<"a", " ", "t">>, 100),
       SearchTheme(<<"T", " ", "A">>, 350)>>,
     <<SearchTheme(<<"T", "a">>, 350), SearchTheme(<<"a", "t">>, 350),
       SearchTheme(<<"t">>, 100)>>}

SearchActionables == {<<>>, <<[ticker |-> <<"T">>, combined_score |-> 15]>>}

SearchLimits == {0, 1, 2, 3}

SearchInit ==
    /\ df \in SearchFrames
    /\ consolidated \in SearchThemeLists
    /\ actionable_df \in SearchActionables
    /\ search_call \in [q : SearchQueries, limit : SearchLimits]
    /\ match_call = NoMatchCall
    /\ search_result = NoSearchResult
    /\ response = NoResponse
    /\ rebuilt = NoResponse
    /\ TierIdle
    /\ StageIdle
    /\ CmpIdle
    /\ BandIdle

SearchCalled == match_call.done \/ search_result.done

FuzzyMatch ==
    /\ ~SearchCalled
    /\ \E text \in MatchTexts :
          match_call' = [done |-> TRUE, query |-> search_call.q, text |-> text,
                         result |-> fuzzy_match(search_call.q, text)]
    /\ UNCHANGED <<graphInputs, response, rebuilt, search_call, search_result>>
    /\ UNCHANGED <<tierVars, stageVars, cmpVars, bandVars>>

SearchAll ==
    /\ ~SearchCalled
    /\ search_result' = search_all(search_call.q, search_call.limit, df, consolidated,
                                   actionable_df)
    /\ UNCHANGED <<graphInputs, response, rebuilt, search_call, match_call>>
    /\ UNCHANGED <<tierVars, stageVars, cmpVars, bandVars>>

SearchNext == FuzzyMatch \/ SearchAll

(***************************************************************************)
(* dashboard/backend/routers/breakout.py: band crossover detector          *)
(*                                                                         *)
(* Closes are whole prices; a missing close (NaN) is the value NaN below.  *)
(* A derived float that may be NaN is a record [nan, v].  Dates are        *)
(* YYYYMMDD numbers, ordered as the 'YYYY-MM-DD' strings are.              *)
(***************************************************************************)
NaN == -1
WINDOW == 220

Num(v) == [nan |-> FALSE, v |-> v]
NaNNum == [nan |-> TRUE, v |-> 0]

\* dict.get(key, default)
Get(d, k, default) == IF k \in DOMAIN d THEN d[k] ELSE default

\* str.replace('-USD', '')
replace_usd(str) == SelectSeq(str, LAMBDA c : c # "-USD")

\* s[:limit]
slice_to(s, limit) ==
    IF limit >= 0 THEN Head_n(s, limit) ELSE SubSeq(s, 1, Max(0, Len(s) + limit))

\* sum of s[lo..hi], halving the range
RECURSIVE Sum(_, _, _)
Sum(s, lo, hi) ==
    IF lo > hi THEN 0
    ELSE IF lo = hi THEN s[lo]
    ELSE Sum(s, lo, (lo + hi) \div 2) + Sum(s, (lo + hi) \div 2 + 1, hi)

\* sum of the squares of s[lo..hi]
RECURSIVE SumSq(_, _, _)
SumSq(s, lo, hi) ==
    IF lo > hi THEN 0
    ELSE IF lo = hi THEN s[lo] * s[lo]
    ELSE SumSq(s, lo, (lo + hi) \div 2) + SumSq(s, (lo + hi) \div 2 + 1, hi)

\* largest r in lo..hi with r * r <= q
RECURSIVE isqrt(_, _, _)
isqrt(q, lo, hi) ==
    IF lo >= hi THEN lo
    ELSE LET mid == (lo + hi + 1) \div 2
         IN  IF mid * mid <= q THEN isqrt(q, mid, hi) ELSE isqrt(q, lo, mid - 1)

\* a / b rounded to the nearest integer, b > 0
RoundDiv(a, b) == (2 * a + b) \div (2 * b)

\* close.rolling(220).mean() and .std(ddof=1) at row k, kept exact: with S the
\* sum and Q the sum of squares of the window, mean = S / 220 and
\* std^2 = V / (220 * 219) where V = 220 * Q - S^2.  NaN until 220 rows are
\* there and whenever the window holds a NaN.
rolling(close, k) ==
    IF k < WINDOW \/ \E i \in (k - WINDOW + 1)..k : close[i] = NaN
    THEN [nan |-> TRUE, S |-> 0, V |-> 0]
    ELSE LET S == Sum(close, k - WINDOW + 1, k)
             Q == SumSq(close, k - WINDOW + 1, k)
         IN  [nan |-> FALSE, S |-> S, V |-> WINDOW * Q - S * S]

\* c > bb_middle + bb_std * 2.0, exactly: c - mean > 0 and (c - mean)^2 > 4 std^2
gt_upper_or_equal(c, b) ==
    LET D == WINDOW * c - b.S
    IN  D >= 0 /\ D * D * (WINDOW - 1) >= 4 * WINDOW * b.V

gt_upper(c, b) ==
    LET D == WINDOW * c - b.S
    IN  D > 0 /\ D * D * (WINDOW - 1) > 4 * WINDOW * b.V

\* bb_upper in units of 1/2200 of a price: 10 * S + sqrt(4 * V * 220 * 100 / 219),
\* the root cut to a whole number of units
upper_units(b) ==
    LET a == (4 * b.V * WINDOW) \div (WINDOW - 1)
        r == (4 * b.V * WINDOW) % (WINDOW - 1)
    IN  10 * b.S + isqrt(100 * a + (100 * r) \div (WINDOW - 1), 0, 46340)

\* (last_close - last_upper) / last_upper * 100, in hundredths of a percent
deviation_pct(c, b) ==
    RoundDiv(10000 * (10 * WINDOW * c - upper_units(b)), upper_units(b))

\* (last_close - prev_close) / prev_close * 100 if prev_close else 0
change_pct(last_close, prev_close) ==
    IF prev_close = 0 THEN Num(0)
    ELSE IF prev_close = NaN \/ last_close = NaN THEN NaNNum
    ELSE Num(RoundDiv(10000 * (last_close - prev_close), prev_close))

\* a cache that holds no entry passing for a cache that was never set
is_none_or_empty(cache) == ~cache.loaded \/ cache.table = <<>>

\* the test "if _price_cache is None", "if _category_cache is None"
is_none(cache) == ~cache.loaded

\* _price_cache after load_price_cache()
load_price_cache(cache, cache_file) ==
    IF is_none(cache) THEN [loaded |-> TRUE, table |-> cache_file] ELSE cache

\* _category_cache after get_category_mapping(); a later row of a ticker
\* overwrites an earlier one
category_table(rows) ==
    LET keys == {upper(rows[i].ticker) : i \in {j \in 1..Len(rows) : rows[j].ticker # <<>>}}
        last(k) == CHOOSE i \in 1..Len(rows) :
                      /\ upper(rows[i].ticker) = k
                      /\ \A j \in 1..Len(rows) : upper(rows[j].ticker) = k => j <= i
    IN  [k \in keys |-> rows[last(k)].category]

get_category_mapping(cache, rows) ==
    IF is_none(cache) THEN [loaded |-> TRUE, table |-> category_table(rows)] ELSE cache

\* the file get_ticker_price_info opens: TICKER-USD.csv, else TICKER.csv
price_file_of(ticker, files) ==
    IF ticker \o <<"-USD">> \in DOMAIN files THEN ticker \o <<"-USD">> ELSE ticker

get_ticker_price_info(ticker, has_price_data, cache, files) ==
    IF ~has_price_data THEN
        LET clean_ticker == upper(replace_usd(ticker))
            price == Get(cache.table, clean_ticker, Get(cache.table, ticker, 0))
        IN  IF price # 0 THEN [empty |-> FALSE, info |-> [close |-> price]]
            ELSE [empty |-> TRUE, info |-> <<>>]
    ELSE IF price_file_of(ticker, files) \notin DOMAIN files
    THEN [empty |-> TRUE, info |-> <<>>]
    ELSE
        LET file == files[price_file_of(ticker, files)]
            close == file.close
            n == Len(close)
        IN  IF ~file.has_close \/ n < WINDOW THEN [empty |-> TRUE, info |-> <<>>]
            ELSE
            LET last_close == close[n]
                last_upper == rolling(close, n)
                prev_close == IF n >= 2 THEN close[n - 1] ELSE last_close
                prev_upper == IF n >= 2 THEN rolling(close, n - 1) ELSE last_upper
                above == ~last_upper.nan /\ last_close # NaN /\ gt_upper(last_close, last_upper)
            IN  [empty |-> FALSE,
                 info |-> [close |-> last_close,
                           bb_upper |-> IF last_upper.nan THEN 0 ELSE upper_units(last_upper),
                           deviation_pct |->
                               IF last_upper.nan \/ last_close = NaN THEN NaNNum
                               ELSE IF upper_units(last_upper) = 0 THEN Num(0)
                               ELSE Num(deviation_pct(last_close, last_upper)),
                           change_pct |-> change_pct(last_close, prev_close),
                           crossed_above |->
                               IF prev_upper.nan THEN FALSE
                               ELSE /\ prev_close # NaN
                                    /\ ~gt_upper(prev_close, prev_upper)
                                    /\ above,
                           above_upper |-> above]]

\* the entries of the cached candidates, in file order
cached_crossovers(cached, limit, category_map) ==
    LET head == slice_to(cached, limit)
    IN  [i \in 1..Len(head) |->
            LET t == head[i]
                ticker_clean == replace_usd(t.ticker)
            IN  [ticker |-> ticker_clean,
                 category |-> Get(category_map, upper(t.ticker),
                                  Get(category_map, upper(ticker_clean), <<>>)),
                 close |-> t.close, bb_upper |-> t.upper_band,
                 deviation_pct |-> t.deviation_pct, change_pct |-> 0,
                 last_date |-> t.last_date]]

\* one pass of the loop over price_files: the entry appended for a file, if any
scan_price_file(stem, file, min_date, min_price) ==
    LET close == SelectSeq(file.close, LAMBDA c : c # 0 /\ c # NaN)
        n == Len(close)
    IN  IF ~file.has_close THEN <<>>
        ELSE IF file.last_date < min_date THEN <<>>
        ELSE IF n < WINDOW THEN <<>>
        ELSE IF close[n] = NaN \/ close[n] = 0 THEN <<>>
        ELSE LET last_close == close[n]
                 last_upper == rolling(close, n)
                 prev_close == IF n >= 2 THEN close[n - 1] ELSE last_close
             IN  IF last_upper.nan \/ upper_units(last_upper) = 0 THEN <<>>
                 ELSE IF gt_upper(last_close, last_upper) /\ last_close >= min_price
                 THEN <<[ticker |-> replace_usd(stem), close |-> last_close,
                         bb_upper |-> upper_units(last_upper),
                         deviation_pct |-> deviation_pct(last_close, last_upper),
                         change_pct |-> change_pct(last_close, prev_close).v,
                         last_date |-> file.last_date]>>
                 ELSE <<>>

\* sorted(crossover_tickers, key=deviation_pct, reverse=True): stable
RECURSIVE InsertByDeviation(_, _)
InsertByDeviation(r, s) ==
    IF s = <<>> THEN <<r>>
    ELSE IF Head(s).deviation_pct >= r.deviation_pct
    THEN <<Head(s)>> \o InsertByDeviation(r, Tail(s))
    ELSE <<r>> \o s

RECURSIVE SortByDeviationDesc(_)
SortByDeviationDesc(s) ==
    IF s = <<>> THEN <<>>
    ELSE InsertByDeviation(s[Len(s)], SortByDeviationDesc(SubSeq(s, 1, Len(s) - 1)))

\* compute_bb_crossovers; stems is the order in which glob lists the files
compute_bb_crossovers(limit, min_date, min_price, has_data, cached, category_map, files, stems) ==
    IF ~has_data THEN cached_crossovers(cached, limit, category_map)
    ELSE slice_to(SortByDeviationDesc(
            Concat([i \in 1..Len(stems) |->
                scan_price_file(stems[i], files[stems[i]], min_date, min_price)])), limit)

(***************************************************************************)
(* Band specification                                                      *)
(***************************************************************************)
\* a price series: a run of closes at 10, then a tail
BandRuns == {218, 219, 220}
BandTails == {<<>>, <<10>>, <<12>>, <<0>>, <<NaN>>, <<10, 12>>, <<12, 10>>, <<12, 12>>,
              <<12, 14>>, <<14, 12>>, <<0, 12>>, <<NaN, 12>>, <<12, 0>>, <<12, 11, 14>>}
BandDates == {20260124, 20260125}
BandMinDates == {20260125}
BandMinPrices == {5, 13}
BandLimits == {0, 1, 2}

BTC == <<"BTC", "-USD">>
ETH == <<"ETH", "-USD">>
SOL == <<"sol">>

BandSeries == {[i \in 1..run |-> 10] \o tail : run \in BandRuns, tail \in BandTails}

BtcFiles == [has_close : {TRUE}, close : BandSeries, last_date : BandDates]
               \cup {[has_close |-> FALSE, close |-> <<>>, last_date |-> 20260125]}

EthFiles == [has_close : {TRUE},
             close : {[i \in 1..220 |-> 10] \o tail : tail \in {<<>>, <<12>>, <<12, 12>>}},
             last_date : {20260125}]

SolFiles == {[has_close |-> TRUE, close |-> [i \in 1..219 |-> 10] \o <<14>>,
              last_date |-> 20260125]}

FilesOf(stem) == IF stem = BTC THEN BtcFiles ELSE IF stem = ETH THEN EthFiles ELSE SolFiles

BandCandidates ==
    {[ticker |-> BTC, close |-> 12, upper_band |-> 11, deviation_pct |-> 909,
      last_date |-> 20260125],
     [ticker |-> ETH, close |-> 14, upper_band |-> 11, deviation_pct |-> 2727,
      last_date |-> 20260125],
     [ticker |-> SOL, close |-> 3, upper_band |-> 2, deviation_pct |-> 5000,
      last_date |-> 20260101]}

BandCandidateLists ==
    {c \in SeqsUpTo(BandCandidates, Cardinality(BandCandidates)) :
        \A i, j \in 1..Len(c) : c[i] = c[j] => i = j}

BandInit ==
    /\ HAS_PRICE_DATA \in BOOLEAN
    /\ IF HAS_PRICE_DATA
       THEN /\ \E D \in SUBSET {BTC, ETH, SOL} :
                  price_files \in {f \in [D -> BtcFiles \cup EthFiles \cup SolFiles] :
                                      \A k \in D : f[k] \in FilesOf(k)}
            /\ bb_candidates = <<>>
            /\ price_cache_file = <<>>
            /\ master_file = <<>>
       ELSE /\ price_files = <<>>
            /\ bb_candidates \in BandCandidateLists
            /\ price_cache_file \in {<<>>, [k \in {<<"BTC">>} |-> 12]}
            /\ master_file \in {<<>>, <<[ticker |-> <<"btc">>, category |-> <<"a">>]>>}
    /\ category_cache = Unset
    /\ price_cache = Unset
    /\ price_info = NoPriceInfo
    /\ crossovers = NoCrossovers
    /\ caller = NoCallers
    /\ BatchIdle
    /\ MemoIdle
    /\ TierIdle
    /\ StageIdle
    /\ CmpIdle
    /\ GraphIdle

BandCalled == price_info.done \/ crossovers.done

GetTickerPriceInfo ==
    /\ ~BandCalled
    /\ \E ticker \in {<<"BTC">>, <<"ETH">>, SOL} :
          LET cache == IF HAS_PRICE_DATA THEN price_cache
                       ELSE load_price_cache(price_cache, price_cache_file)
              r == get_ticker_price_info(ticker, HAS_PRICE_DATA, cache, price_files)
          IN  /\ price_cache' = cache
              /\ price_info' = [done |-> TRUE, ticker |-> ticker, empty |-> r.empty,
                                info |-> r.info]
    /\ UNCHANGED <<bandInputs, category_cache, crossovers, caller, batchVars, memoVars>>
    /\ UNCHANGED <<tierVars, stageVars, cmpVars, graphVars>>

\* every order of the elements of S
Orders(S) == {o \in [1..Cardinality(S) -> S] : \A i, j \in DOMAIN o : o[i] = o[j] => i = j}

IsUsdStem(stem) == stem # <<>> /\ stem[Len(stem)] = "-USD"

ComputeBBCrossovers ==
    /\ ~BandCalled
    /\ \E limit \in BandLimits, min_date \in BandMinDates, min_price \in BandMinPrices,
          stems \in Orders({k \in DOMAIN price_files : IsUsdStem(k)}) :
          LET cache == IF HAS_PRICE_DATA \/ bb_candidates = <<>> THEN category_cache
                       ELSE get_category_mapping(category_cache, master_file)
          IN  /\ category_cache' = cache
              /\ crossovers' = [done |-> TRUE, limit |-> limit, min_date |-> min_date,
                                min_price |-> min_price,
                                tickers |-> compute_bb_crossovers(limit, min_date, min_price,
                                               HAS_PRICE_DATA, bb_candidates, cache.table,
                                               price_files, stems)]
    /\ UNCHANGED <<bandInputs, price_cache, price_info, caller, batchVars, memoVars>>
    /\ UNCHANGED <<tierVars, stageVars, cmpVars, graphVars>>

BandNext == GetTickerPriceInfo \/ ComputeBBCrossovers

(***************************************************************************)
(* dashboard/backend/routers/breakout.py: batch classification             *)
(*                                                                         *)
(* A cell of the csv is a record: a float, the float NaN of an empty cell, *)
(* None, or a text that is not a number.  A row is a function from the     *)
(* columns the file has to their cells.  A dict that is tallied into is a  *)
(* sequence of [name, count] in insertion order.                           *)
(***************************************************************************)
Float(v) == [kind |-> "float", v |-> v]
NaNCell == [kind |-> "nan", v |-> 0]
NoneCell == [kind |-> "none", v |-> 0]
TextCell == [kind |-> "text", v |-> 0]

\* safe_float(value): 0.0 for None and for the float NaN, else float(value),
\* which raises ValueError for a text that is not a number
safe_float(value) ==
    IF value.kind = "none" \/ value.kind = "nan" THEN [raised |-> FALSE, v |-> 0]
    ELSE IF value.kind = "text" THEN [raised |-> TRUE, v |-> 0]
    ELSE [raised |-> FALSE, v |-> value.v]

\* safe_float(row.get(key, 0))
row_float(row, key) == safe_float(Get(row, key, Float(0)))

\* a safe_float call of the loop body raises for this row
row_raises(row, keys) == \E k \in keys : row_float(row, k).raised

\* d.get(k, default) and d[k] = v
dict_get(d, k, default) ==
    IF \E i \in 1..Len(d) : d[i].name = k
    THEN d[CHOOSE i \in 1..Len(d) : d[i].name = k].count
    ELSE default

dict_set(d, k, v) ==
    IF \E i \in 1..Len(d) : d[i].name = k
    THEN [i \in 1..Len(d) |-> IF d[i].name = k THEN [name |-> k, count |-> v] ELSE d[i]]
    ELSE Append(d, [name |-> k, count |-> v])

\* d[name] = d.get(name, 0) + 1 for every name of names, in order
RECURSIVE tally(_, _)
tally(d, names) ==
    IF names = <<>> THEN d
    ELSE tally(dict_set(d, Head(names), dict_get(d, Head(names), 0) + 1), Tail(names))

\* c['stage'].lower(), in words
stage_lower(stage_name) ==
    CASE stage_name = "Super Trend" -> <<"super", " ", "trend">>
      [] stage_name = "Early Breakout" -> <<"early", " ", "breakout">>
      [] stage_name = "Burgeoning" -> <<"burgeoning">>
      [] stage_name = "Building" -> <<"building">>
      [] stage_name = "Bear Volatile" -> <<"bear", " ", "volatile">>
      [] OTHER -> <<"consolidation">>

\* the dict appended to candidates for a row; score is int(combined_score * 100)
candidate_of(row, green, tstop, has_data, files) ==
    LET ticker == upper(row.ticker)
        momentum == row_float(row, "momentum").v
        bull_ratio == row_float(row, "bull_ratio").v
        combined_score == row_float(row, "combined_score").v
        in_green == ticker \in green
        in_tstop == ticker \in tstop
        signal == get_stage_from_signals(momentum, bull_ratio, in_green, in_tstop)
        tier == Get(row, "tier", "")
        info == get_ticker_price_info(ticker, TRUE, Unset, files)
    IN  [ticker |-> ticker,
         company |-> Get(row, "company", Get(row, "name", <<>>)),
         score |-> combined_score,
         stage |-> signal[1],
         priority |-> signal[2],
         strategy |-> IF tier = "Tier 1" THEN "Bull Quiet"
                      ELSE IF tier = "Tier 2" THEN "Transition"
                      ELSE IF momentum > 0 THEN "Ranging"
                      ELSE "-",
         themes |-> Get(row, "category", Get(row, "theme", <<>>)),
         momentum |-> momentum,
         fiedler |-> row_float(row, "fiedler").v,
         tier |-> Get(row, "tier", "Tier 4"),
         in_green |-> in_green,
         in_tstop |-> in_tstop,
         close |-> IF has_data /\ ~info.empty THEN info.info.close ELSE 0]

\* sorted(candidates, key=score, reverse=True): stable
RECURSIVE InsertByCandidateScore(_, _)
InsertByCandidateScore(r, s) ==
    IF s = <<>> THEN <<r>>
    ELSE IF Head(s).score >= r.score
    THEN <<Head(s)>> \o InsertByCandidateScore(r, Tail(s))
    ELSE <<r>> \o s

RECURSIVE SortByCandidateScore(_)
SortByCandidateScore(s) ==
    IF s = <<>> THEN <<>>
    ELSE InsertByCandidateScore(s[Len(s)], SortByCandidateScore(SubSeq(s, 1, Len(s) - 1)))

\* get_breakout_candidates(stage, priority, min_score, theme, limit); an empty
\* string and a min_score of 0 are parameters not given.  load_actionable_tickers
\* raises 404 without a file, and any other exception ends the request with 500.
get_breakout_candidates(stage, priority, min_score, theme, limit, file, green, tstop, has_data, files) ==
    LET base == [NoCandidates EXCEPT !.done = TRUE, !.limit = limit,
                    !.filters_applied = [stage |-> stage, min_score |-> min_score,
                                         priority |-> priority, theme |-> theme]]
        rows == file.rows
    IN  IF ~file.exists THEN [base EXCEPT !.status = 404]
        ELSE IF \E i \in 1..Len(rows) :
                    row_raises(rows[i], {"momentum", "bull_ratio", "combined_score", "fiedler"})
        THEN [base EXCEPT !.status = 500]
        ELSE
        LET all == [i \in 1..Len(rows) |-> candidate_of(rows[i], green, tstop, has_data, files)]
            by_stage == IF stage = <<>> THEN all
                        ELSE SelectSeq(all, LAMBDA c : contains(lower(stage), stage_lower(c.stage)))
            by_priority == IF priority = <<>> THEN by_stage
                           ELSE SelectSeq(by_stage, LAMBDA c : <<c.priority>> = upper(priority))
            by_score == IF min_score = 0 THEN by_priority
                        ELSE SelectSeq(by_priority, LAMBDA c : c.score >= min_score)
            by_theme == IF theme = <<>> THEN by_score
                        ELSE SelectSeq(by_score, LAMBDA c : contains(lower(theme), lower(c.themes)))
            cut == slice_to(SortByCandidateScore(by_theme), limit)
        IN  [base EXCEPT !.status = 200, !.candidates = cut, !.count = Len(cut),
                         !.total_available = Len(rows),
                         !.stage_distribution =
                             tally(<<>>, [i \in 1..Len(cut) |-> cut[i].stage])]

\* sorted(stages.items(), key=lambda x: -x[1]): stable
RECURSIVE InsertByCount(_, _)
InsertByCount(r, s) ==
    IF s = <<>> THEN <<r>>
    ELSE IF Head(s).count >= r.count
    THEN <<Head(s)>> \o InsertByCount(r, Tail(s))
    ELSE <<r>> \o s

RECURSIVE SortByCountDesc(_)
SortByCountDesc(s) ==
    IF s = <<>> THEN <<>>
    ELSE InsertByCount(s[Len(s)], SortByCountDesc(SubSeq(s, 1, Len(s) - 1)))

\* get_stage_distribution(), supertrend_count being len(compute_bb_crossovers(limit=100));
\* here the 404 of load_actionable_tickers is caught like any exception: 500
get_stage_distribution(file, green, supertrend_count) ==
    LET base == [NoDistribution EXCEPT !.done = TRUE]
        rows == file.rows
    IN  IF ~file.exists THEN [base EXCEPT !.status = 500]
        ELSE IF \E i \in 1..Len(rows) : row_raises(rows[i], {"momentum", "bull_ratio"})
        THEN [base EXCEPT !.status = 500]
        ELSE
        LET signal(i) == get_stage_from_signals(row_float(rows[i], "momentum").v,
                                                row_float(rows[i], "bull_ratio").v,
                                                upper(rows[i].ticker) \in green, FALSE)
            tallied == tally(<<>>, [i \in 1..Len(rows) |-> signal(i)[1]])
            levels == tally(<<>>, [i \in 1..Len(rows) |-> signal(i)[2]])
            stages == dict_set(tallied, "Super Trend", supertrend_count)
            priorities == IF supertrend_count > 0
                          THEN dict_set(levels, "HIGH",
                                        dict_get(levels, "HIGH", 0) + supertrend_count)
                          ELSE levels
        IN  [base EXCEPT !.status = 200, !.stages = SortByCountDesc(stages),
                         !.priorities = priorities, !.total = Len(rows)]

(***************************************************************************)
(* Batch specification                                                     *)
(***************************************************************************)
\* the columns a row may lack, with the cells it may have there
Optional(key, cells) == {<<>>} \cup {key :> c : c \in cells}

BatchFirstRows ==
    {[ticker |-> <<"btc">>, tier |-> "Tier 1", category |-> <<"A", " ", "b">>] @@ m @@ b @@ s :
        m \in Optional("momentum", {Float(11), Float(6), Float(1), Float(0), Float(-6),
                                    NaNCell, TextCell}),
        b \in Optional("bull_ratio", {Float(50), NaNCell}),
        s \in Optional("combined_score", {Float(25), Float(50)})}

BatchSecondRows ==
    {[ticker |-> <<"ETH">>, tier |-> "Tier 3", category |-> <<"b">>, momentum |-> m,
      bull_ratio |-> Float(50), combined_score |-> s, fiedler |-> Float(150)] :
        m \in {Float(11), Float(0), TextCell}, s \in {Float(50)}}

BatchPopulations ==
    {<<>>} \cup {<<r>> : r \in BatchFirstRows}
        \cup {<<r1, r2>> : r1 \in BatchFirstRows, r2 \in BatchSecondRows}
        \cup {<<r2, r1>> : r1 \in BatchFirstRows, r2 \in BatchSecondRows}

\* the requests: no filter, a cut to one result, each filter alone, all of them
BatchRequests ==
    {NoFilters @@ [limit |-> 100],
     [NoFilters EXCEPT !.stage = <<"Breakout">>] @@ [limit |-> 100],
     [NoFilters EXCEPT !.priority = <<"high">>] @@ [limit |-> 100],
     [NoFilters EXCEPT !.min_score = 50] @@ [limit |-> 100],
     [NoFilters EXCEPT !.theme = <<"B">>] @@ [limit |-> 100],
     NoFilters @@ [limit |-> 1],
     [stage |-> <<"Breakout">>, min_score |-> 50, priority |-> <<"high">>,
      theme |-> <<"B">>, limit |-> 1]}

BatchInit ==
    /\ tickers_file \in {NoFile} \cup {[exists |-> TRUE, rows |-> p] : p \in BatchPopulations}
    /\ green_tickers \in {{}, {<<"BTC">>}}
    /\ tstop_tickers \in {{}, {<<"BTC">>}}
    /\ HAS_PRICE_DATA \in BOOLEAN
    /\ IF HAS_PRICE_DATA
       THEN /\ price_files \in {<<>>} \cup [{BTC} -> SolFiles]
            /\ bb_candidates = <<>>
       ELSE /\ price_files = <<>>
            /\ bb_candidates \in {c \in BandCandidateLists : Len(c) = 0 \/ c[1].ticker = BTC}
    /\ price_cache_file = <<>>
    /\ master_file = <<>>
    /\ category_cache = Unset
    /\ price_cache = Unset
    /\ price_info = NoPriceInfo
    /\ crossovers = NoCrossovers
    /\ caller = NoCallers
    /\ candidates_out = NoCandidates
    /\ distribution = NoDistribution
    /\ MemoIdle
    /\ TierIdle
    /\ StageIdle
    /\ CmpIdle
    /\ GraphIdle

BatchCalled == candidates_out.done \/ distribution.done

GetBreakoutCandidates ==
    /\ ~BatchCalled
    /\ \E r \in BatchRequests :
          candidates_out' = get_breakout_candidates(r.stage, r.priority, r.min_score, r.theme,
                                r.limit, tickers_file, green_tickers, tstop_tickers,
                                HAS_PRICE_DATA, price_files)
    /\ UNCHANGED <<bandInputs, category_cache, price_cache, price_info, crossovers, caller>>
    /\ UNCHANGED <<tickers_file, green_tickers, tstop_tickers, distribution, memoVars>>
    /\ UNCHANGED <<tierVars, stageVars, cmpVars, graphVars>>

\* compute_bb_crossovers(limit=100) runs once the file of tickers is loaded, with
\* its default min_date '2026-01-25' and min_price 5.0
GetStageDistribution ==
    /\ ~BatchCalled
    /\ \E stems \in Orders({k \in DOMAIN price_files : IsUsdStem(k)}) :
          LET cache == IF ~tickers_file.exists \/ HAS_PRICE_DATA \/ bb_candidates = <<>>
                       THEN category_cache
                       ELSE get_category_mapping(category_cache, master_file)
              bb_crossovers == IF ~tickers_file.exists THEN <<>>
                               ELSE compute_bb_crossovers(100, 20260125, 5, HAS_PRICE_DATA,
                                        bb_candidates, cache.table, price_files, stems)
          IN  /\ category_cache' = cache
              /\ distribution' = get_stage_distribution(tickers_file, green_tickers,
                                                        Len(bb_crossovers))
    /\ UNCHANGED <<bandInputs, price_cache, price_info, crossovers, caller>>
    /\ UNCHANGED <<tickers_file, green_tickers, tstop_tickers, candidates_out, memoVars>>
    /\ UNCHANGED <<tierVars, stageVars, cmpVars, graphVars>>

BatchNext == GetBreakoutCandidates \/ GetStageDistribution

(***************************************************************************)
(* Memo specification: get_category_mapping and load_price_cache called    *)
(* one after the other, any number of times, while the files they read     *)
(* change between the calls                                                *)
(***************************************************************************)
MaxCalls == 3

MASTER == "theme_ticker_master.csv"
PRICES == "price_cache.json"

MemoMasters == {<<>>, <<[ticker |-> <<"btc">>, category |-> <<"a">>]>>,
                <<[ticker |-> <<"btc">>, category |-> <<"b">>],
                  [ticker |-> <<"eth">>, category |-> <<"a">>]>>}
MemoPrices == {<<>>, [k \in {<<"BTC">>} |-> 12], [k \in {<<"BTC">>} |-> 14]}

\* what a load gets out of a file: the except branch of both loaders assigns
\* {}, which is also what a file that is missing or has no entry leaves
file_read(file, name) == IF name \in unreadable THEN <<>> ELSE file

\* the record of one more call that found the cache as before and left it as after
called(m, before, after, name) ==
    [calls |-> m.calls + 1,
     reads |-> IF is_none(before) THEN m.reads + 1 ELSE m.reads,
     raised |-> IF m.calls = 0 THEN name \in unreadable ELSE m.raised,
     first |-> IF m.calls = 0 THEN after.table ELSE m.first,
     last |-> after.table]

MemoInit ==
    /\ master_file \in MemoMasters
    /\ price_cache_file \in MemoPrices
    /\ unreadable \in SUBSET {MASTER, PRICES}
    /\ memo = NoMemo
    /\ category_cache = Unset
    /\ price_cache = Unset
    /\ HAS_PRICE_DATA = FALSE
    /\ price_files = <<>>
    /\ bb_candidates = <<>>
    /\ price_info = NoPriceInfo
    /\ crossovers = NoCrossovers
    /\ caller = NoCallers
    /\ BatchIdle
    /\ TierIdle
    /\ StageIdle
    /\ CmpIdle
    /\ GraphIdle

MemoUnchanged ==
    /\ UNCHANGED <<HAS_PRICE_DATA, price_files, bb_candidates, price_info, crossovers, caller>>
    /\ UNCHANGED <<batchVars, tierVars, stageVars, cmpVars, graphVars>>

CallGetCategoryMapping ==
    /\ memo.category.calls < MaxCalls
    /\ LET cache == get_category_mapping(category_cache, file_read(master_file, MASTER))
       IN  /\ category_cache' = cache
           /\ memo' = [memo EXCEPT !.category = called(@, category_cache, cache, MASTER)]
    /\ UNCHANGED <<master_file, price_cache_file, unreadable, price_cache>>
    /\ MemoUnchanged

CallLoadPriceCache ==
    /\ memo.prices.calls < MaxCalls
    /\ LET cache == load_price_cache(price_cache, file_read(price_cache_file, PRICES))
       IN  /\ price_cache' = cache
           /\ memo' = [memo EXCEPT !.prices = called(@, price_cache, cache, PRICES)]
    /\ UNCHANGED <<master_file, price_cache_file, unreadable, category_cache>>
    /\ MemoUnchanged

\* between two calls the files are rewritten, removed or repaired
ChangeSource ==
    /\ master_file' \in MemoMasters
    /\ price_cache_file' \in MemoPrices
    /\ unreadable' \in SUBSET {MASTER, PRICES}
    /\ <<master_file', price_cache_file', unreadable'>>
          # <<master_file, price_cache_file, unreadable>>
    /\ UNCHANGED <<memo, category_cache, price_cache>>
    /\ MemoUnchanged

MemoNext == CallGetCategoryMapping \/ CallLoadPriceCache \/ ChangeSource

(***************************************************************************)
(* Category cache specification: get_category_mapping called by two        *)
(* threads, one statement of the function per step.  The function takes no *)
(* lock, and _category_cache is bound to the empty dict before the loop     *)
(* over the rows fills it.                                                 *)
(***************************************************************************)
MaxMasterRows == 2

MasterRows == {[ticker |-> <<"btc">>, category |-> <<"a">>],
               [ticker |-> <<"eth">>, category |-> <<"b">>],
               [ticker |-> <<"BTC">>, category |-> <<"c">>],
               [ticker |-> <<>>, category |-> <<"a">>]}

\* _category_cache[ticker] = row.get('category', '') for a row with a ticker
fill_row_as_written(table, row) ==
    IF row.ticker = <<>> THEN table
    ELSE [k \in DOMAIN table \cup {row.ticker} |->
            IF k = row.ticker THEN row.category ELSE table[k]]

fill_row(table, row) ==
    IF row.ticker = <<>> THEN table
    ELSE [k \in DOMAIN table \cup {upper(row.ticker)} |->
            IF k = upper(row.ticker) THEN row.category ELSE table[k]]

CacheInit ==
    /\ master_file \in SeqsUpTo(MasterRows, MaxMasterRows)
    /\ category_cache = Unset
    /\ caller = [c \in Callers |-> [NotCalling EXCEPT !.pc = "check"]]
    /\ HAS_PRICE_DATA = FALSE
    /\ price_files = <<>>
    /\ bb_candidates = <<>>
    /\ price_cache_file = <<>>
    /\ price_cache = Unset
    /\ price_info = NoPriceInfo
    /\ crossovers = NoCrossovers
    /\ BatchIdle
    /\ MemoIdle
    /\ TierIdle
    /\ StageIdle
    /\ CmpIdle
    /\ GraphIdle

CacheUnchanged ==
    /\ UNCHANGED <<bandInputs, price_cache, price_info, crossovers, batchVars, memoVars>>
    /\ UNCHANGED <<tierVars, stageVars, cmpVars, graphVars>>

\* if _category_cache is None
CheckCache(c) ==
    /\ caller[c].pc = "check"
    /\ caller' = [caller EXCEPT ![c].pc = IF category_cache.loaded THEN "return" ELSE "read",
                                ![c].hit = category_cache.loaded]
    /\ UNCHANGED category_cache
    /\ CacheUnchanged

\* master_file.exists() and df = pd.read_csv(master_file)
ReadMaster(c) ==
    /\ caller[c].pc = "read"
    /\ caller' = [caller EXCEPT ![c].pc = "assign"]
    /\ UNCHANGED category_cache
    /\ CacheUnchanged

\* _category_cache = {}
AssignEmpty(c) ==
    /\ caller[c].pc = "assign"
    /\ category_cache' = [loaded |-> TRUE, table |-> <<>>]
    /\ caller' = [caller EXCEPT ![c].pc = "fill", ![c].next_row = 1]
    /\ CacheUnchanged

\* one pass of "for _, row in df.iterrows()", or the end of the loop
FillRow(c) ==
    /\ caller[c].pc = "fill"
    /\ IF caller[c].next_row > Len(master_file)
       THEN /\ caller' = [caller EXCEPT ![c].pc = "return"]
            /\ UNCHANGED category_cache
       ELSE /\ category_cache' =
                  [category_cache EXCEPT
                      !.table = fill_row(@, master_file[caller[c].next_row])]
            /\ caller' = [caller EXCEPT ![c].next_row = @ + 1]
    /\ CacheUnchanged

\* return _category_cache: the caller is handed the dict as it stands
ReturnCache(c) ==
    /\ caller[c].pc = "return"
    /\ caller' = [caller EXCEPT ![c].pc = "done",
                                ![c].table = category_cache.table,
                                ![c].filling = \E o \in Callers \ {c} : caller[o].pc = "fill"]
    /\ UNCHANGED category_cache
    /\ CacheUnchanged

CacheNext ==
    \E c \in Callers :
        CheckCache(c) \/ ReadMaster(c) \/ AssignEmpty(c) \/ FillRow(c) \/ ReturnCache(c)

vars == <<rankings_df, tier_column, theme_tickers_df, tier_call, actionable, analysis,
          signals, stage_out, rankings, lookback_days, changes, pct_change, change_status,
          df, consolidated, actionable_df, response, rebuilt, match_call, search_call, search_result,
          HAS_PRICE_DATA, price_files, bb_candidates, price_cache_file, master_file,
          category_cache, price_cache, price_info, crossovers, caller, tickers_file,
          green_tickers, tstop_tickers, candidates_out, distribution, unreadable, memo>>

SpecTier == TierInit /\ [][TierNext]_vars

SpecTierCall == TierCallInit /\ [][TierCallNext]_vars

SpecStage == StageInit /\ [][StageNext]_vars

SpecCmp == CmpInit /\ [][CmpNext]_vars

SpecChange == ChangeInit /\ [][ChangeNext]_vars

SpecGraph == GraphInit /\ [][GraphNext]_vars

SpecWide == WideInit /\ [][GraphNext]_vars

SpecAgain == WideInit /\ [][AgainNext]_vars

SpecSearch == SearchInit /\ [][SearchNext]_vars

SpecBand == BandInit /\ [][BandNext]_vars

SpecBatch == BatchInit /\ [][BatchNext]_vars

SpecMemo == MemoInit /\ [][MemoNext]_vars

SpecCache == CacheInit /\ [][CacheNext]_vars

(***************************************************************************)
(* Claims                                                                  *)
(***************************************************************************)
\* the first tier, tried in order, whose score or cohesion threshold is met
FirstTierByScoreOrCohesion(score, cohesion) ==
    IF score >= SCORE_THRESHOLDS.tier1 \/ cohesion >= TIER_THRESHOLDS.tier1 THEN "Tier 1"
    ELSE IF score >= SCORE_THRESHOLDS.tier2 \/ cohesion >= TIER_THRESHOLDS.tier2 THEN "Tier 2"
    ELSE IF score >= SCORE_THRESHOLDS.tier3 \/ cohesion >= TIER_THRESHOLDS.tier3 THEN "Tier 3"
    ELSE "Tier 4"

\* C1: the tier classifier returns the first tier, Tier 1 to Tier 3, for which
\* the composite score reaches that tier's score threshold (0.20/0.10/0.05) or
\* the cohesion reaches its cohesion threshold (7.5/3.0/1.0), both inclusive,
\* and Tier 4 when no tier matches.
C1_TierFirstMatch ==
    tier_call.done =>
        tier_call.result = FirstTierByScoreOrCohesion(tier_call.combined_score, tier_call.fiedler)

\* C2: get_stage_from_signals returns the result of the ordered decision list;
\* each line below is one branch with the earlier branches excluded, and any
\* momentum below -0.05 is Bear Volatile / AVOID whatever the other inputs.
C2_StageDecisionList ==
    stage_out.done =>
        LET m == signals.momentum
            b == signals.bull_ratio
            out == <<stage_out.stage, stage_out.priority>>
            first == m > 10 /\ b >= 50
        IN  /\ (first /\ signals.in_green) => out = <<"Super Trend", "HIGH">>
            /\ (first /\ ~signals.in_green) => out = <<"Early Breakout", "HIGH">>
            /\ (~first /\ m > 5 /\ signals.in_tstop) => out = <<"Early Breakout", "MEDIUM">>
            /\ (~first /\ m > 5 /\ ~signals.in_tstop) => out = <<"Burgeoning", "MEDIUM">>
            /\ (m > 0 /\ m <= 5) => out = <<"Building", "LOW">>
            /\ (m < -5) => out = <<"Bear Volatile", "AVOID">>
            /\ (m <= 0 /\ m >= -5) => out = <<"Consolidation", "LOW">>

\* a strong momentum with a bull ratio exactly at 0.50 and the green flag, classified
C2_Witness ==
    /\ stage_out.done
    /\ signals.momentum > 10 /\ signals.bull_ratio = 50 /\ signals.in_green
    /\ stage_out.stage = "Super Trend"

\* the dates a comparison may use: every snapshot date but the latest
OtherDates == DOMAIN rankings \ {changes.latest_date}

IsNewest(d, S) == d \in S /\ \A e \in S : e <= d

\* C3 (as claimed): the comparison snapshot is the most recent other snapshot
\* strictly older than latest_date - lookback_days, and the one right before
\* the latest when no snapshot qualifies.
C3_CompareStrictlyOlder ==
    (changes.done /\ ~changes.empty) =>
        LET older == {d \in OtherDates :
                         strptime(d) < strptime(changes.latest_date) - lookback_days}
        IN  /\ IsNewest(changes.latest_date, DOMAIN rankings)
            /\ IF older # {} THEN IsNewest(changes.compare_date, older)
               ELSE IsNewest(changes.compare_date, OtherDates)

\* C3 (amended): the comparison snapshot is the most recent other snapshot dated
\* on or before latest_date - lookback_days, and the one right before the latest
\* when no snapshot qualifies.
C3_CompareAtOrBefore ==
    (changes.done /\ ~changes.empty) =>
        LET older == {d \in OtherDates :
                         strptime(d) <= strptime(changes.latest_date) - lookback_days}
        IN  /\ IsNewest(changes.latest_date, DOMAIN rankings)
            /\ IF older # {} THEN IsNewest(changes.compare_date, older)
               ELSE IsNewest(changes.compare_date, OtherDates)

\* a snapshot dated exactly lookback_days before the latest is compared with,
\* although an older one exists; the dates straddle a month end
C3_Witness ==
    /\ changes.done /\ ~changes.empty
    /\ strptime(changes.compare_date) = strptime(changes.latest_date) - lookback_days
    /\ changes.latest_date \div 100 # changes.compare_date \div 100
    /\ \E d \in OtherDates : d < changes.compare_date

\* C4: the tier of every record emitted by generate_actionable_tickers and by
\* generate_consolidated_analysis is the tier classifier's value for that
\* record's own score, never a tier taken from the input row.
C4_TierFromClassifier ==
    /\ \A i \in 1..Len(actionable.rows) :
          actionable.rows[i].tier = calculate_tier(actionable.rows[i].combined_score)
    /\ \A t \in DOMAIN analysis.themes :
          analysis.themes[t].tier = calculate_tier(analysis.themes[t].combined_score)
    /\ \A i \in 1..Len(analysis.top_picks) :
          analysis.top_picks[i].tier = calculate_tier(analysis.top_picks[i].combined_score)

ThemesOf(frame) == {frame[i].theme : i \in 1..Len(frame)}

RowOf(frame, t) == frame[CHOOSE i \in 1..Len(frame) : frame[i].theme = t]

\* C10: calculate_cohesion_changes has one record per theme present in both the
\* latest and the comparison snapshot and none for any other theme; its
\* cohesion_change is latest minus previous cohesion and its pct change is
\* cohesion_change / cohesion_prev * 100, with a previous cohesion of 0 divided
\* by 1 instead (never by zero).
C10_InnerJoinAndChange ==
    (changes.done /\ ~changes.empty) =>
        LET latest_df == rankings[changes.latest_date]
            compare_df == rankings[changes.compare_date]
            both == ThemesOf(latest_df) \cap ThemesOf(compare_df)
        IN  /\ ThemesOf(changes.merged) = both
            /\ Len(changes.merged) = Cardinality(both)
            /\ \A i \in 1..Len(changes.merged) :
                  LET r == changes.merged[i]
                      cur == RowOf(latest_df, r.theme).fiedler
                      prev == RowOf(compare_df, r.theme).fiedler
                      pct == r.fiedler_pct_change
                  IN  /\ r.fiedler_change = cur - prev
                      /\ pct.den # 0
                      /\ prev # 0 => pct.num * prev = (cur - prev) * 100 * pct.den
                      /\ prev = 0 => pct.num = (cur - prev) * pct.den

\* a theme of the latest snapshot is missing from the comparison, and a joined
\* theme rose from a previous cohesion of exactly 0
C10_Witness ==
    /\ changes.done /\ ~changes.empty
    /\ ThemesOf(rankings[changes.latest_date]) \ ThemesOf(rankings[changes.compare_date]) # {}
    /\ \E i \in 1..Len(changes.merged) :
          changes.merged[i].fiedler_prev = 0 /\ changes.merged[i].fiedler_change > 0

GraphBuilt == response.done /\ response.status = 200

NodeIdsDistinct ==
    \A i, j \in 1..Len(response.nodes) :
        response.nodes[i].id = response.nodes[j].id => i = j

EdgeIdsDistinct ==
    \A i, j \in 1..Len(response.edges) :
        response.edges[i].id = response.edges[j].id => i = j

NoSelfEdge == \A i \in 1..Len(response.edges) : response.edges[i].from # response.edges[i].to

NoParallelEdges ==
    \A i, j \in 1..Len(response.edges) :
        {response.edges[i].from, response.edges[i].to}
            = {response.edges[j].from, response.edges[j].to} => i = j

\* C5: in every graph one get_graph_data call returns (stock, theme at depth 1
\* or 2, global) the node ids are pairwise distinct, the edge ids are pairwise
\* distinct, no edge joins a node to itself and no two edges join the same
\* unordered pair of nodes, whatever the names, names with '_' included.
C5_UniqueIdsNoSelfNoDuplicate ==
    GraphBuilt => NodeIdsDistinct /\ EdgeIdsDistinct /\ NoSelfEdge /\ NoParallelEdges

\* the symbols (distinct ticker strings) two themes share in the master frame
SharedSymbols(t1, t2) ==
    {k \in Range(GraphTickers) :
        /\ \E i \in 1..Len(df) : df[i].theme = t1 /\ df[i].ticker = k
        /\ \E i \in 1..Len(df) : df[i].theme = t2 /\ df[i].ticker = k}

EdgesBetween(t1, t2) ==
    {i \in 1..Len(response.edges) :
        {response.edges[i].from, response.edges[i].to} = {theme_ \o t1, theme_ \o t2}}

\* C6: in the global graph two distinct themes are joined by a theme-theme edge
\* if and only if they share at least 2 symbols of the membership table, and the
\* value of that edge is the exact number of shared symbols.
C6_SharedSymbolEdges ==
    (GraphBuilt /\ response.mode = "global") =>
        \A i, j \in 1..Len(consolidated) : i < j =>
            LET t1 == consolidated[i].theme
                t2 == consolidated[j].theme
                n == Cardinality(SharedSymbols(t1, t2))
            IN  /\ (EdgesBetween(t1, t2) # {}) <=> (n >= 2)
                /\ \A e \in EdgesBetween(t1, t2) : response.edges[e].value = n

\* a global graph over a frame with a repeated row, with an edge for two shared
\* symbols and a pair of themes sharing exactly one symbol and no edge
C6_Witness ==
    /\ GraphBuilt /\ response.mode = "global"
    /\ \E i, j \in 1..Len(df) : i # j /\ df[i] = df[j]
    /\ \E i \in 1..Len(response.edges) : response.edges[i].value = 2
    /\ \E i, j \in 1..Len(consolidated) :
          /\ i < j
          /\ Cardinality(SharedSymbols(consolidated[i].theme, consolidated[j].theme)) = 1
          /\ EdgesBetween(consolidated[i].theme, consolidated[j].theme) = {}

\* the closes that count: neither zero nor missing
ValidCloses(close) == SelectSeq(close, LAMBDA c : c # 0 /\ c # NaN)

\* c lies strictly above mean + 2 * sample standard deviation of the closes w
StrictlyAboveBand(c, w) ==
    LET n == Len(w)
        S == Sum(w, 1, n)
        Q == SumSq(w, 1, n)
    IN  /\ n * c > S
        /\ (n * c - S) * (n * c - S) * (n - 1) > 4 * n * (n * Q - S * S)

LastWindow(close, k) == SubSeq(close, k - WINDOW + 1, k)

\* the band at row k is defined: 220 rows up to k, none of them missing
BandDefined(close, k) ==
    k >= WINDOW /\ \A i \in (k - WINDOW + 1)..k : close[i] # NaN

\* the file a get_ticker_price_info call has read
InfoStem == price_file_of(price_info.ticker, price_files)

InfoScanned ==
    /\ price_info.done /\ HAS_PRICE_DATA
    /\ InfoStem \in DOMAIN price_files
    /\ price_files[InfoStem].has_close

\* the entry a fresh file with enough valid closes must give
MustBeListed(file) ==
    LET valid == ValidCloses(file.close)
    IN  /\ file.has_close /\ file.last_date >= crossovers.min_date
        /\ Len(valid) >= WINDOW
        /\ StrictlyAboveBand(valid[Len(valid)], LastWindow(valid, Len(valid)))
        /\ valid[Len(valid)] >= crossovers.min_price

\* C7: the price scan gives no result for a symbol with fewer than 220 valid
\* (non-zero, non-missing) closes, counted after dropping the others, and gives
\* a result at exactly 220, in get_ticker_price_info and in compute_bb_crossovers.
C7_NeedsWindowValidCloses ==
    /\ InfoScanned =>
          LET n == Len(ValidCloses(price_files[InfoStem].close))
          IN  /\ n < WINDOW => price_info.empty
              /\ n = WINDOW => ~price_info.empty
    /\ (crossovers.done /\ HAS_PRICE_DATA) =>
          \A k \in DOMAIN price_files : IsUsdStem(k) =>
              LET n == Len(ValidCloses(price_files[k].close))
                  listed == \E i \in 1..Len(crossovers.tickers) :
                                crossovers.tickers[i].ticker = replace_usd(k)
              IN  /\ n < WINDOW => ~listed
                  /\ (n = WINDOW /\ MustBeListed(price_files[k]) /\ crossovers.limit >= 2)
                        => listed

\* C8: with a defined band, above_upper holds iff the latest close is strictly
\* above the latest upper band, crossed_above iff moreover the previous close
\* was at or below the previous upper band; a previous close already above its
\* band gives a hold (above_upper without crossed_above).
C8_StrictCrossover ==
    (InfoScanned /\ ~price_info.empty
        /\ BandDefined(price_files[InfoStem].close, Len(price_files[InfoStem].close))) =>
        LET close == price_files[InfoStem].close
            n == Len(close)
            above == StrictlyAboveBand(close[n], LastWindow(close, n))
            prev_defined == BandDefined(close, n - 1)
            prev_above == prev_defined
                            /\ StrictlyAboveBand(close[n - 1], LastWindow(close, n - 1))
        IN  /\ price_info.info.above_upper <=> above
            /\ price_info.info.crossed_above <=> (above /\ prev_defined /\ ~prev_above)
            /\ (above /\ prev_above) =>
                  (price_info.info.above_upper /\ ~price_info.info.crossed_above)

\* a hold: the previous close was above its band and the latest one still is
C8_Witness ==
    /\ InfoScanned /\ ~price_info.empty
    /\ LET close == price_files[InfoStem].close
           n == Len(close)
       IN  /\ BandDefined(close, n) /\ BandDefined(close, n - 1)
           /\ StrictlyAboveBand(close[n - 1], LastWindow(close, n - 1))
           /\ price_info.info.above_upper /\ ~price_info.info.crossed_above

\* the qualifying symbols: the files that pass the scan, or the cached
\* candidates that are fresh, above their band and not below min_price
Qualifying ==
    IF HAS_PRICE_DATA
    THEN {k \in DOMAIN price_files : IsUsdStem(k) /\ MustBeListed(price_files[k])}
    ELSE {i \in 1..Len(bb_candidates) :
            /\ bb_candidates[i].last_date >= crossovers.min_date
            /\ bb_candidates[i].close >= crossovers.min_price
            /\ bb_candidates[i].close > bb_candidates[i].upper_band}

QualifyingDeviation(q) ==
    IF HAS_PRICE_DATA
    THEN LET valid == ValidCloses(price_files[q].close)
         IN  deviation_pct(valid[Len(valid)], rolling(valid, Len(valid)))
    ELSE bb_candidates[q].deviation_pct

\* C9: whatever the limit and the path (price files or cached candidates) the
\* list compute_bb_crossovers returns has at most limit entries, is ordered by
\* deviation_pct non-increasing and holds the limit largest deviations of all
\* qualifying symbols.
C9_TopLimitByDeviation ==
    crossovers.done =>
        LET out == crossovers.tickers
        IN  /\ Len(out) <= crossovers.limit
            /\ Len(out) >= Min(crossovers.limit, Cardinality(Qualifying))
            /\ \A i \in 1..(Len(out) - 1) : out[i].deviation_pct >= out[i + 1].deviation_pct
            /\ \A i \in 1..Len(out) :
                  Cardinality({q \in Qualifying :
                                  QualifyingDeviation(q) > out[i].deviation_pct}) < i

\* the percentage the classifier was called with is exactly k thousandths
PctIs(k) == pct_change.num * 1000 = k * pct_change.den

\* C11: classify_change puts every percentage p in exactly one of the five
\* buckets, read top-down: p >= 20 ENHANCED, else p >= 5 IMPROVING, else p <= -20
\* DECLINING, else p <= -5 WEAKENING, else STABLE; 20.0 is ENHANCED, 19.999 is
\* IMPROVING, -20.0 is DECLINING and 0.0 is STABLE.
C11_ChangeBuckets ==
    change_status.done =>
        LET n == pct_change.num
            d == pct_change.den
            st == change_status.status
        IN  /\ d > 0
            /\ st \in {"ENHANCED", "IMPROVING", "DECLINING", "WEAKENING", "STABLE"}
            /\ (st = "ENHANCED")  <=> (n >= 20 * d)
            /\ (st = "IMPROVING") <=> (n >= 5 * d /\ n < 20 * d)
            /\ (st = "DECLINING") <=> (n <= -20 * d)
            /\ (st = "WEAKENING") <=> (n <= -5 * d /\ n > -20 * d)
            /\ (st = "STABLE")    <=> (n > -5 * d /\ n < 5 * d)
            /\ PctIs(20000) => st = "ENHANCED"
            /\ PctIs(19999) => st = "IMPROVING"
            /\ PctIs(-20000) => st = "DECLINING"
            /\ PctIs(0) => st = "STABLE"

C11_Witness ==
    /\ change_status.done
    /\ PctIs(19999)
    /\ change_status.status = "IMPROVING"

\* sub occurs in str as a run of adjacent characters
IsSubstring(sub, str) ==
    \E i \in 1..(Len(str) + 1) :
        \A k \in 1..Len(sub) : i + k - 1 <= Len(str) /\ str[i + k - 1] = sub[k]

\* str without its leading and trailing whitespace
Trimmed(str) ==
    LET ns == {i \in 1..Len(str) : str[i] # " "}
    IN  IF ns = {} THEN <<>>
        ELSE SubSeq(str, CHOOSE i \in ns : \A j \in ns : i <= j,
                         CHOOSE i \in ns : \A j \in ns : j <= i)

\* the positions <<i, j>> of the whitespace-separated words of str
WordRuns(str) ==
    {r \in (1..Len(str)) \X (1..Len(str)) :
        /\ r[1] <= r[2]
        /\ \A k \in r[1]..r[2] : str[k] # " "
        /\ (r[1] = 1 \/ str[r[1] - 1] = " ")
        /\ (r[2] = Len(str) \/ str[r[2] + 1] = " ")}

Matches(query, target) ==
    LET qs == Trimmed(lower(query))
        tg == lower(target)
    IN  \/ IsSubstring(qs, tg)
        \/ /\ Cardinality(WordRuns(qs)) > 1
           /\ \A r \in WordRuns(qs) : IsSubstring(SubSeq(qs, r[1], r[2]), tg)

NothingMatches ==
    /\ \A i \in 1..Len(df) :
          ~Matches(search_call.q, df[i].ticker) /\ ~Matches(search_call.q, df[i].company)
    /\ \A i \in 1..Len(consolidated) : ~Matches(search_call.q, consolidated[i].theme)

\* C12: fuzzy_match(query, target) is true iff the lowercased, trimmed query is a
\* substring of the lowercased target, or the query has more than one
\* whitespace-separated word and every word is a substring of the lowercased
\* target, whatever the order and adjacency of the words; a search in which
\* nothing matches returns empty lists and no error.
C12_FuzzyMatch ==
    /\ match_call.done =>
          (match_call.result <=> Matches(match_call.query, match_call.text))
    /\ (search_result.done /\ NothingMatches) =>
          /\ search_result.status = 200
          /\ search_result.stocks = <<>>
          /\ search_result.themes = <<>>

\* the words of the query occur in the target in another order, not adjacent
C12_Witness ==
    /\ match_call.done
    /\ match_call.query = <<"a", " ", "t">>
    /\ match_call.text = <<"T", " ", "a">>
    /\ match_call.result

\* C13: for every limit >= 0 search_all returns at most limit symbol results and
\* at most limit theme results, no ticker twice among the symbol results, and the
\* theme results in non-increasing order of cohesion.
C13_SearchCapped ==
    (search_result.done /\ search_call.limit >= 0) =>
        /\ Len(search_result.stocks) <= search_call.limit
        /\ Len(search_result.themes) <= search_call.limit
        /\ \A i, j \in 1..Len(search_result.stocks) :
              search_result.stocks[i].ticker = search_result.stocks[j].ticker => i = j
        /\ \A i, j \in 1..Len(search_result.themes) :
              i < j => search_result.themes[i].fiedler >= search_result.themes[j].fiedler

\* the rows of the master frame of the queried symbol, and its themes
StockRows == {i \in 1..Len(df) : upper(df[i].ticker) = upper(response.stock)}

StockThemes == {df[i].theme : i \in StockRows}

NodesWhere(P(_)) == {i \in 1..Len(response.nodes) : P(response.nodes[i])}

EdgesWhere(P(_)) == {i \in 1..Len(response.edges) : P(response.edges[i])}

\* C14: the symbol-centered graph of a symbol with membership records has exactly
\* one symbol node, the center, exactly one theme node per distinct theme of the
\* symbol and exactly one edge from the center to each of these themes; a symbol
\* without a membership record yields NotFound and no graph.
C14_StockCenteredGraph ==
    (response.done /\ response.mode = "stock") =>
        IF StockRows = {}
        THEN /\ response.status = 404
             /\ response.nodes = <<>>
             /\ response.edges = <<>>
        ELSE LET center == stock_ \o upper(response.stock)
             IN  /\ response.status = 200
                 /\ Cardinality(NodesWhere(LAMBDA n : n.type = "stock")) = 1
                 /\ Cardinality(NodesWhere(LAMBDA n : n.id = center /\ n.type = "stock"
                                                      /\ n.isCenter)) = 1
                 /\ Cardinality(NodesWhere(LAMBDA n : n.type = "theme"))
                       = Cardinality(StockThemes)
                 /\ \A t \in StockThemes :
                       /\ Cardinality(NodesWhere(LAMBDA n : n.type = "theme"
                                                            /\ n.id = theme_ \o t)) = 1
                       /\ Cardinality(EdgesWhere(LAMBDA e : e.from = center
                                                            /\ e.to = theme_ \o t)) = 1
                 /\ Len(response.edges) = Cardinality(StockThemes)

\* a lower-case query for a symbol listed in three themes, one row twice
C14_Witness ==
    /\ response.done
    /\ response.mode = "stock"
    /\ response.status = 200
    /\ response.stock = <<"x">>
    /\ Cardinality(StockThemes) = 3
    /\ Cardinality(StockRows) > 3
    /\ Len(response.edges) = 3

\* the rows of the master frame of the queried theme
ThemeRows == {i \in 1..Len(df) : df[i].theme = response.theme}

ThemeMembers == {df[i].ticker : i \in ThemeRows}

StockNodeTickers == {response.nodes[i].ticker : i \in NodesWhere(LAMBDA n : n.type = "stock")}

\* the highest weight of a member of the queried theme
MemberWeight(ticker) ==
    LET ws == {df[i].weight : i \in {j \in ThemeRows : df[j].ticker = ticker}}
    IN  CHOOSE w \in ws : \A v \in ws : v <= w

\* C15: the theme-centered graph has the center theme node, symbol nodes only for
\* the top 15 members of the theme by descending weight and one theme-to-symbol
\* edge per such symbol; at depth 1 no other theme node; at depth >= 2 each of
\* these symbols has at most 5 symbol-to-theme edges, each to a theme the symbol
\* belongs to other than the center theme.
C15_ThemeCenteredGraph ==
    (response.done /\ response.mode = "theme") =>
        LET center == theme_ \o response.theme
        IN  /\ Cardinality(NodesWhere(LAMBDA n : n.id = center /\ n.type = "theme")) = 1
            /\ StockNodeTickers \subseteq ThemeMembers
            /\ Cardinality(NodesWhere(LAMBDA n : n.type = "stock")) <= 15
            /\ \A x \in StockNodeTickers : \A y \in ThemeMembers \ StockNodeTickers :
                  MemberWeight(x) >= MemberWeight(y)
            /\ \A x \in StockNodeTickers :
                  Cardinality(EdgesWhere(LAMBDA e : e.from = center
                                                    /\ e.to = stock_ \o x)) = 1
            /\ Cardinality(EdgesWhere(LAMBDA e : e.from = center))
                  = Cardinality(StockNodeTickers)
            /\ response.depth = 1 =>
                  /\ Cardinality(NodesWhere(LAMBDA n : n.type = "theme")) = 1
                  /\ EdgesWhere(LAMBDA e : e.from # center) = {}
            /\ response.depth >= 2 =>
                  /\ \A i \in EdgesWhere(LAMBDA e : e.from # center) :
                        \E x \in StockNodeTickers, j \in 1..Len(df) :
                            /\ response.edges[i].from = stock_ \o x
                            /\ df[j].ticker = x
                            /\ df[j].theme # response.theme
                            /\ response.edges[i].to = theme_ \o df[j].theme
                  /\ \A x \in StockNodeTickers :
                        Cardinality(EdgesWhere(LAMBDA e : e.from = stock_ \o x)) <= 5

\* a theme of 17 members with ascending weights, at depth 2, one member being in
\* six other themes: 15 symbol nodes, the first two members left out, and five
\* edges from that member
C15_Witness ==
    /\ response.done
    /\ response.mode = "theme"
    /\ response.depth = 2
    /\ Cardinality(ThemeMembers) = 17
    /\ Cardinality(StockNodeTickers) = 15
    /\ WideTickers[1] \notin StockNodeTickers
    /\ Cardinality({j \in 1..Len(df) : df[j].ticker = WideTickers[17]}) = 7
    /\ Cardinality(EdgesWhere(LAMBDA e : e.from = stock_ \o WideTickers[17])) = 5

\* the queried theme has a metrics entry in the consolidated analysis
ThemeHasMetrics == \E i \in 1..Len(consolidated) : consolidated[i].theme = response.theme

\* C16: a graph request for a theme without membership rows and without a
\* metrics entry is reported as NotFound, as a request for an unknown symbol
\* is; it returns no successful graph.
C16_UnknownThemeNotFound ==
    /\ (response.done /\ response.mode = "stock" /\ StockRows = {}) =>
          response.status = 404
    /\ (response.done /\ response.mode = "theme" /\ ThemeRows = {} /\ ~ThemeHasMetrics) =>
          /\ response.status = 404
          /\ response.nodes = <<>>

\* the band of the comparator's scale that a node color or a level string names
BandOfColor(color) ==
    CASE color = "#10b981" -> "VERY STRONG"
      [] color = "#3b82f6" -> "STRONG"
      [] color = "#f59e0b" -> "MODERATE"
      [] OTHER -> "WEAK"

BandOfLevel(level) ==
    CASE level = "very_strong" -> "VERY STRONG"
      [] level = "strong" -> "STRONG"
      [] level = "moderate" -> "MODERATE"
      [] OTHER -> "WEAK"

\* C17: the color and the level of a theme node are the comparator's four-band
\* step function of cohesion (>= 3.0 very strong, else >= 1.5 strong, else >= 0.5
\* moderate, else weak): get_cohesion_color and get_cohesion_level select the
\* band classify_cohesion selects.
C17_SameBands ==
    response.done =>
        \A i \in NodesWhere(LAMBDA n : n.type = "theme") :
            LET n == response.nodes[i]
            IN  /\ BandOfColor(n.color) = classify_cohesion(n.fiedler)
                /\ BandOfLevel(get_cohesion_level(n.fiedler)) = classify_cohesion(n.fiedler)

\* the signal the four bands give a buy percentage
SignalOfBuyPct(buy_pct) ==
    IF buy_pct >= 70 THEN "strong_buy"
    ELSE IF buy_pct >= 50 THEN "buy"
    ELSE IF buy_pct >= 30 THEN "neutral"
    ELSE "avoid"

\* C18: every symbol node carries a buy percentage in [0, 100] and the signal
\* that the step function gives this percentage (>= 70 strong_buy, else >= 50
\* buy, else >= 30 neutral, else avoid), with the color of that signal, also
\* when the symbol has no record in the actionable table.
C18_SignalFollowsBuyPct ==
    response.done =>
        \A i \in NodesWhere(LAMBDA n : n.type = "stock") :
            LET n == response.nodes[i]
            IN  /\ n.score >= 0
                /\ n.score <= 100
                /\ n.signal = SignalOfBuyPct(n.score)
                /\ n.color = signal_color(SignalOfBuyPct(n.score))

\* the table once filled from every row of the master file
FinishedTable == category_table(master_file)

\* the entries of the finished table that the table handed to caller c lacks
MissedEntries(c) == DOMAIN FinishedTable \ DOMAIN caller[c].table

\* C19: get_category_mapping memoizes the symbol-to-category table lazily and
\* without a lock: a caller is handed whatever the shared table holds when it
\* returns, so it misses entries of the finished table only when another
\* caller is still in its fill loop at that moment, and once every caller has
\* returned the cache is the finished table.  (The interleaving in which a caller
\* that found the cache already set misses entries is the state C19_Witness.)
C19_HandedWhileFilling ==
    /\ \A c \in Callers :
          caller[c].pc = "done" =>
              /\ DOMAIN caller[c].table \subseteq DOMAIN FinishedTable
              /\ MissedEntries(c) # {} => caller[c].filling
    /\ (\A c \in Callers : caller[c].pc = "done") =>
          /\ category_cache.loaded
          /\ category_cache.table = FinishedTable

\* caller 2 found the cache set by caller 1, returned at once and lacks an entry
\* that the finished table has, while caller 1 is still filling
C19_Witness ==
    /\ caller[2].pc = "done"
    /\ caller[2].hit
    /\ MissedEntries(2) # {}
    /\ caller[1].pc = "fill"

\* the number of a tier: a higher number is a worse tier
TierRank(tier) ==
    CASE tier = "Tier 1" -> 1 [] tier = "Tier 2" -> 2 [] tier = "Tier 3" -> 3 [] OTHER -> 4

\* the tier of a row with this score and this cohesion: the classifier is called
\* with the score of the row only
TierOf(score, cohesion) == calculate_tier(score)

\* C20: the tier classifier is total and monotonic: for all (score, cohesion) it
\* returns one of the four tiers, and raising the score or the cohesion never
\* gives a worse (higher-numbered) tier.
C20_TierTotalMonotone ==
    tier_call.done =>
        /\ tier_call.result \in Tiers
        /\ \A score \in TierCallScores, cohesion \in TierCallFiedlers :
              (score >= tier_call.combined_score /\ cohesion >= tier_call.fiedler) =>
                  TierRank(TierOf(score, cohesion)) <= TierRank(tier_call.result)

\* a call on the Tier 3 threshold: higher inputs give Tier 3 or better
C20_Witness ==
    /\ tier_call.done
    /\ tier_call.combined_score = TIER_THRESHOLDS.tier3
    /\ tier_call.fiedler = 50
    /\ tier_call.result = "Tier 3"

C22_TooFewSnapshots ==
    (changes.done /\ Cardinality(DOMAIN rankings) < 2) =>
        /\ ~changes.raised
        /\ changes.empty
        /\ changes.merged = <<>>

\* a call with a single snapshot, which has rows, has returned
C22_Witness ==
    /\ changes.done
    /\ Cardinality(DOMAIN rankings) = 1
    /\ \E d \in DOMAIN rankings : rankings[d] # <<>>
    /\ changes.empty

EntryAboveBand(e) ==
    IF HAS_PRICE_DATA THEN 10 * WINDOW * e.close > e.bb_upper ELSE e.close > e.bb_upper

\* C25: every entry compute_bb_crossovers returns, on the price-file path and on
\* the cached-candidates path, has a close strictly above its upper band, a
\* close of at least min_price and a last date on or after min_date.
C25_EveryEntryQualifies ==
    crossovers.done =>
        \A i \in 1..Len(crossovers.tickers) :
            LET e == crossovers.tickers[i]
            IN  /\ EntryAboveBand(e)
                /\ e.close >= crossovers.min_price
                /\ e.last_date >= crossovers.min_date

\* the stage and the priority get_stage_from_signals gives row i of the population
\* in get_stage_distribution
SignalOfRow(i) ==
    LET row == tickers_file.rows[i]
    IN  get_stage_from_signals(row_float(row, "momentum").v, row_float(row, "bull_ratio").v,
                               upper(row.ticker) \in green_tickers, FALSE)

\* the sum of the counts of a tallied dict
TotalCount(d) == Sum([i \in 1..Len(d) |-> d[i].count], 1, Len(d))

\* C24: the stage and priority distributions reported for a population are plain
\* tallies of the per-symbol classification: in get_stage_distribution the count
\* reported for each stage is the number of symbols get_stage_from_signals
\* assigned to that stage, the stage counts sum to the population size, and the
\* priority counts sum to the population size.
C24_PlainTallies ==
    (distribution.done /\ distribution.status = 200) =>
        LET population == 1..Len(tickers_file.rows)
        IN  /\ distribution.total = Len(tickers_file.rows)
            /\ \A k \in 1..Len(distribution.stages) :
                  distribution.stages[k].count =
                      Cardinality({i \in population :
                                      SignalOfRow(i)[1] = distribution.stages[k].name})
            /\ TotalCount(distribution.stages) = distribution.total
            /\ TotalCount(distribution.priorities) = distribution.total

\* a numeric field of a row read leniently: its number, 0 when the
\* column is missing or the cell is not a valid number
ValueOrZero(row, key) ==
    IF key \in DOMAIN row /\ row[key].kind = "float" THEN row[key].v ELSE 0

\* the request has no filter and a limit that cuts nothing
Unfiltered ==
    /\ candidates_out.filters_applied = NoFilters
    /\ candidates_out.limit >= Len(tickers_file.rows)

NodeIds == {response.nodes[i].id : i \in 1..Len(response.nodes)}

\* C27: in every graph get_graph_data returns, in all three modes, both endpoints
\* of every edge are ids of nodes of the same response.
C27_EdgesJoinNodes ==
    response.done =>
        \A i \in 1..Len(response.edges) :
            /\ response.edges[i].from \in NodeIds
            /\ response.edges[i].to \in NodeIds

\* a depth 2 graph of a theme with a member linked to another theme that the
\* consolidated analysis does not list
C27_Witness ==
    /\ response.done
    /\ response.mode = "theme"
    /\ response.depth = 2
    /\ \E i \in 1..Len(response.edges) :
          /\ SubSeq(response.edges[i].from, 1, Len(stock_)) = stock_
          /\ response.edges[i].to # theme_ \o response.theme
          /\ \A k \in 1..Len(consolidated) :
                theme_ \o consolidated[k].theme # response.edges[i].to

\* the other themes of ticker x: the themes the master frame lists it in, the
\* center theme left out
OtherThemesOf(x) ==
    {df[j].theme : j \in {i \in 1..Len(df) : df[i].ticker = x /\ df[i].theme # response.theme}}

\* the edges of the response that lead from the symbol x to a theme
SymbolThemeEdges(x) ==
    EdgesWhere(LAMBDA e : /\ e.from = stock_ \o x
                          /\ SubSeq(e.to, 1, Len(theme_)) = theme_)

\* C28: in a depth 2 theme-centered graph the cap of five counts only other
\* themes: a symbol that belongs to k themes other than the center gets exactly
\* min(k, 5) symbol-to-theme edges, and the center theme never uses a slot.
C28_CapCountsOtherThemes ==
    (response.done /\ response.mode = "theme" /\ response.depth = 2) =>
        \A x \in StockNodeTickers :
            Cardinality(SymbolThemeEdges(x)) = Min(Cardinality(OtherThemesOf(x)), OtherThemesCap)

\* the themes of the consolidated analysis that match the query
MatchingThemes ==
    {i \in 1..Len(consolidated) : fuzzy_match(search_call.q, consolidated[i].theme)}

\* C29: when more than limit themes match the query, search_all returns the
\* limit matching themes with the highest cohesion: no matching theme left out
\* has a higher cohesion than a returned one.
C29_TopThemesByCohesion ==
    (search_result.done /\ search_result.status = 200
        /\ Cardinality(MatchingThemes) > search_call.limit) =>
        /\ Len(search_result.themes) = search_call.limit
        /\ \A k \in 1..Len(search_result.themes) :
              \A i \in MatchingThemes :
                  \/ \E j \in 1..Len(search_result.themes) :
                        search_result.themes[j].theme = consolidated[i].theme
                  \/ consolidated[i].fiedler <= search_result.themes[k].fiedler

====
